---- MODULE Spec2Model ----
(***************************************************************************)
(* Model of the gateway eligibility and projection engine                  *)
(* (FilterService.evaluateFilters in src/src/services/filter.ts).          *)
(*                                                                         *)
(* JavaScript values are tagged records [t |-> tag, v |-> payload]:        *)
(*   undefined, null, boolean, number, nan, string (a tuple of one-char    *)
(*   strings) and object (a function from key names to values).            *)
(***************************************************************************)
EXTENDS Integers, Sequences, FiniteSets, TLC

VARIABLES
  batchData, request, now,  \* the arguments of the call in progress and the clock
  pc, result,               \* where the call stands and what it returned
  feeTableCache,            \* FilterService.feeTableCache
  history,                  \* the earlier calls: their arguments and results
  redis,                    \* the keys of the result sink and what each holds
  api,                      \* the request the API is handling and its answer
  worker,                   \* the write the worker has in progress
  runs,                     \* the two worker programs: where each run stands
  ledger                    \* the sites of the deployment; per site: payloads made, newest the primary key held

vars ==
  <<batchData, request, now, pc, result, feeTableCache, history, redis, api, worker, runs, ledger>>

engineVars == <<batchData, request, now, pc, result, feeTableCache, history>>

serviceVars == <<redis, api, worker>>

runVars == <<runs, ledger>>

----------------------------------------------------------------------------
(* JavaScript values *)

Undef == [t |-> "undefined", v |-> 0]

Null == [t |-> "null", v |-> 0]

NaN == [t |-> "nan", v |-> 0]

Bool(b) == [t |-> "boolean", v |-> b]

Num(n) == [t |-> "number", v |-> n]

Str(s) == [t |-> "string", v |-> s]

Obj(f) == [t |-> "object", v |-> f]

Arr(s) == [t |-> "array", v |-> s]

EmptyObj == Obj(<<>>)

\* x.k and x?.k : a missing key, and a key of undefined/null behind ?., read as undefined
Get(x, k) == IF x.t = "object" /\ k \in DOMAIN x.v THEN x.v[k] ELSE Undef

\* a ?? b
Nullish(a, b) == IF a.t \in {"undefined", "null"} THEN b ELSE a

\* ToBoolean(x), as used by !x, x || y and if (x)
Truthy(x) ==
  CASE x.t \in {"undefined", "null", "nan"} -> FALSE
    [] x.t = "boolean" -> x.v
    [] x.t = "number" -> x.v # 0
    [] x.t = "string" -> Len(x.v) > 0
    [] OTHER -> TRUE

\* a || b
OrElse(a, b) == IF Truthy(a) THEN a ELSE b

----------------------------------------------------------------------------
(* Strings *)

Digits == <<"0", "1", "2", "3", "4", "5", "6", "7", "8", "9">>

IsDigit(c) == \E i \in 1..10 : Digits[i] = c

DigitVal(c) == (CHOOSE i \in 1..10 : Digits[i] = c) - 1

IsSpace(c) == c = " "

RECURSIVE TrimStart(_)
TrimStart(s) ==
  IF s = <<>> THEN <<>>
  ELSE IF IsSpace(Head(s)) THEN TrimStart(Tail(s)) ELSE s

RECURSIVE TrimEnd(_)
TrimEnd(s) ==
  IF s = <<>> THEN <<>>
  ELSE IF IsSpace(s[Len(s)]) THEN TrimEnd(SubSeq(s, 1, Len(s) - 1)) ELSE s

\* String.prototype.trim
Trim(s) == TrimEnd(TrimStart(s))

\* String.prototype.split(sep) for a one-character separator
RECURSIVE SplitAcc(_, _, _)
SplitAcc(s, sep, cur) ==
  IF s = <<>> THEN <<cur>>
  ELSE IF Head(s) = sep THEN <<cur>> \o SplitAcc(Tail(s), sep, <<>>)
  ELSE SplitAcc(Tail(s), sep, Append(cur, Head(s)))

Split(s, sep) == SplitAcc(s, sep, <<>>)

RECURSIVE DecimalValue(_, _)
DecimalValue(s, acc) ==
  IF s = <<>> THEN acc ELSE DecimalValue(Tail(s), 10 * acc + DigitVal(Head(s)))

\* Number(x): a blank string is 0, a string of decimal digits is its value, and any other
\* string over the characters used here (none forms a sign, a fraction, an exponent or a
\* radix prefix) is NaN
ToNumber(x) ==
  CASE x.t = "number" -> x
    [] x.t = "string" ->
         LET s == Trim(x.v) IN
           IF s = <<>> THEN Num(0)
           ELSE IF \A i \in 1..Len(s) : IsDigit(s[i]) THEN Num(DecimalValue(s, 0))
           ELSE NaN
    [] x.t = "null" -> Num(0)
    [] x.t = "boolean" -> Num(IF x.v THEN 1 ELSE 0)
    [] OTHER -> NaN

\* a * b, a + b, a >= b, a <= b on numbers; NaN propagates and compares false
Times(a, b) ==
  LET x == ToNumber(a) y == ToNumber(b) IN
    IF x.t = "nan" \/ y.t = "nan" THEN NaN ELSE Num(x.v * y.v)

Plus(a, b) ==
  LET x == ToNumber(a) y == ToNumber(b) IN
    IF x.t = "nan" \/ y.t = "nan" THEN NaN ELSE Num(x.v + y.v)

Geq(a, b) ==
  LET x == ToNumber(a) y == ToNumber(b) IN
    x.t = "number" /\ y.t = "number" /\ x.v >= y.v

Leq(a, b) ==
  LET x == ToNumber(a) y == ToNumber(b) IN
    x.t = "number" /\ y.t = "number" /\ x.v <= y.v

Lt(a, b) ==
  LET x == ToNumber(a) y == ToNumber(b) IN
    x.t = "number" /\ y.t = "number" /\ x.v < y.v

\* String(x) for the values used as property keys and in template strings
ToStr(x) ==
  CASE x.t = "string" -> x.v
    [] x.t = "undefined" -> <<"u", "n", "d", "e", "f", "i", "n", "e", "d">>
    [] x.t = "null" -> <<"n", "u", "l", "l">>
    [] x.t = "boolean" -> IF x.v THEN <<"t", "r", "u", "e">> ELSE <<"f", "a", "l", "s", "e">>
    [] OTHER -> <<"?">>

\* obj[key] on a map keyed by identifiers (balances, errors): the key is converted to a string
Lookup(obj, key) == Get(obj, ToStr(key))

----------------------------------------------------------------------------
(* FilterService *)

ERROR_LIMIT == 5

\* const { gateways = [], balances = {}, errors = {}, providers = [] } = batchData
gatewaysOf(bd) == IF Get(bd, "gateways").t = "undefined" THEN <<>> ELSE Get(bd, "gateways").v

balancesOf(bd) == IF Get(bd, "balances").t = "undefined" THEN EmptyObj ELSE Get(bd, "balances")

errorsOf(bd) == IF Get(bd, "errors").t = "undefined" THEN EmptyObj ELSE Get(bd, "errors")

providersOf(bd) == IF Get(bd, "providers").t = "undefined" THEN <<>> ELSE Get(bd, "providers").v

\* providerMap.get(key) after providerMap.set(p.provider, p) for every p in order: the last entry wins
providerMapGet(providers, key) ==
  LET hits == {i \in 1..Len(providers) : Get(providers[i], "provider") = key} IN
    IF hits = {} THEN Undef
    ELSE providers[CHOOSE i \in hits : \A j \in hits : j <= i]

\* Filter 1
checkStatusAnyTruthy(gateway) == Truthy(Get(gateway, "status"))

checkStatus(gateway) == Get(gateway, "status") = Bool(TRUE)

UpperLetters ==
  <<"A", "B", "C", "D", "E", "F", "G", "H", "I", "J", "K", "L", "M",
    "N", "O", "P", "Q", "R", "S", "T", "U", "V", "W", "X", "Y", "Z">>

LowerLetters ==
  <<"a", "b", "c", "d", "e", "f", "g", "h", "i", "j", "k", "l", "m",
    "n", "o", "p", "q", "r", "s", "t", "u", "v", "w", "x", "y", "z">>

\* String.prototype.toLowerCase
ToLowerCase(s) ==
  [i \in 1..Len(s) |->
     IF \E n \in 1..26 : UpperLetters[n] = s[i]
     THEN LowerLetters[CHOOSE n \in 1..26 : UpperLetters[n] = s[i]]
     ELSE s[i]]

validStatuses ==
  {<<"a", "c", "t", "i", "v", "e">>, <<"e", "n", "a", "b", "l", "e", "d">>,
   <<"o", "n", "l", "i", "n", "e">>, <<"t", "r", "u", "e">>}

\* Filter 1 of the earlier engine (src/src/api.ts), which also takes status strings
checkStatusLegacy(gateway) ==
  \/ Get(gateway, "status") = Bool(TRUE)
  \/ ToLowerCase(ToStr(Nullish(Get(gateway, "status"), Str(<<>>)))) \in validStatuses

\* the deposit window read by the time gate: a ?? b ?? c at each end
gateOpeningTime(gateway, provider) ==
  Nullish(Get(Get(Get(Get(gateway, "metaConfig"), "operateTime"), "deposit"), "openingTime"),
    Nullish(Get(Get(Get(gateway, "serviceTime"), "deposit"), "openingTime"),
      Get(Get(Get(provider, "operateTime"), "deposit"), "openingTime")))

gateClosingTime(gateway, provider) ==
  Nullish(Get(Get(Get(Get(gateway, "metaConfig"), "operateTime"), "deposit"), "closingTime"),
    Nullish(Get(Get(Get(gateway, "serviceTime"), "deposit"), "closingTime"),
      Get(Get(Get(provider, "operateTime"), "deposit"), "closingTime")))

\* const [h, m] = s.split(':').map(Number); h * 60 + m  (a missing part is undefined)
minutesOf(s) ==
  LET parts == Split(s.v, ":")
      h == ToNumber(Str(parts[1]))
      m == IF Len(parts) >= 2 THEN ToNumber(Str(parts[2])) ELSE NaN
  IN Plus(Times(h, Num(60)), m)

\* a time gate that raises on a time string it cannot parse
checkTimeRangeThrowsOnMalformed(gateway, providers, nowMinutes) ==
  LET provider == providerMapGet(providers, Get(gateway, "provider"))
      openingTime == gateOpeningTime(gateway, provider)
      closingTime == gateClosingTime(gateway, provider)
  IN /\ Truthy(openingTime)
     /\ Truthy(closingTime)
     /\ \/ openingTime.t # "string"
        \/ closingTime.t # "string"
        \/ minutesOf(openingTime) = NaN
        \/ minutesOf(closingTime) = NaN

\* Filter 2 throws a TypeError when a truthy time value has no split method
checkTimeRangeThrows(gateway, providers, nowMinutes) ==
  LET provider == providerMapGet(providers, Get(gateway, "provider"))
      openingTime == gateOpeningTime(gateway, provider)
      closingTime == gateClosingTime(gateway, provider)
  IN /\ Truthy(openingTime)
     /\ Truthy(closingTime)
     /\ (openingTime.t # "string" \/ closingTime.t # "string")

\* a time gate that closes at the closing minute
checkTimeRangeExclusive(gateway, providers, nowMinutes) ==
  LET provider == providerMapGet(providers, Get(gateway, "provider"))
      openingTime == gateOpeningTime(gateway, provider)
      closingTime == gateClosingTime(gateway, provider)
  IN IF ~Truthy(openingTime) \/ ~Truthy(closingTime) THEN TRUE
     ELSE /\ Geq(Num(nowMinutes), minutesOf(openingTime))
          /\ Lt(Num(nowMinutes), minutesOf(closingTime))

\* a time gate that takes an opening time after the closing time as a window over midnight
checkTimeRangeOverMidnight(gateway, providers, nowMinutes) ==
  LET provider == providerMapGet(providers, Get(gateway, "provider"))
      openingTime == gateOpeningTime(gateway, provider)
      closingTime == gateClosingTime(gateway, provider)
  IN IF ~Truthy(openingTime) \/ ~Truthy(closingTime) THEN TRUE
     ELSE IF Lt(minutesOf(closingTime), minutesOf(openingTime))
     THEN \/ Geq(Num(nowMinutes), minutesOf(openingTime))
          \/ Leq(Num(nowMinutes), minutesOf(closingTime))
     ELSE /\ Geq(Num(nowMinutes), minutesOf(openingTime))
          /\ Leq(Num(nowMinutes), minutesOf(closingTime))

checkTimeRange(gateway, providers, nowMinutes) ==
  LET provider == providerMapGet(providers, Get(gateway, "provider"))
      openingTime == gateOpeningTime(gateway, provider)
      closingTime == gateClosingTime(gateway, provider)
  IN IF ~Truthy(openingTime) \/ ~Truthy(closingTime) THEN TRUE
     ELSE /\ Geq(Num(nowMinutes), minutesOf(openingTime))
          /\ Leq(Num(nowMinutes), minutesOf(closingTime))

\* Filter 3 throws a TypeError when a truthy provider value has no trim method
checkProviderThrows(gateway, providers) ==
  LET p == Get(gateway, "provider") IN Truthy(p) /\ p.t # "string"

\* a provider gate that takes an entry without an isActive field as active
checkProviderActiveUnlessFalse(gateway, providers) ==
  LET p == Get(gateway, "provider")
      provider == providerMapGet(providers, p)
  IN /\ Truthy(p)
     /\ Len(Trim(p.v)) # 0
     /\ Truthy(provider)
     /\ Get(provider, "isActive") # Bool(FALSE)
     /\ ~Truthy(Get(provider, "isDisabled"))

checkProviderUnregistered(gateway, providers) ==
  LET p == Get(gateway, "provider")
      provider == providerMapGet(providers, p)
  IN /\ Truthy(p)
     /\ Len(Trim(p.v)) # 0
     /\ (Truthy(provider) => Truthy(Get(provider, "isActive")) /\ ~Truthy(Get(provider, "isDisabled")))

checkProviderIgnoreDisabled(gateway, providers) ==
  LET p == Get(gateway, "provider")
      provider == providerMapGet(providers, p)
  IN /\ Truthy(p)
     /\ Len(Trim(p.v)) # 0
     /\ Truthy(provider)
     /\ Truthy(Get(provider, "isActive"))

checkProvider(gateway, providers) ==
  LET p == Get(gateway, "provider")
      provider == providerMapGet(providers, p)
  IN /\ Truthy(p)
     /\ Len(Trim(p.v)) # 0
     /\ Truthy(provider)
     /\ Truthy(Get(provider, "isActive"))
     /\ ~Truthy(Get(provider, "isDisabled"))

\* Filter 4
checkErrorLimitOffByOne(gateway, errors) ==
  Leq(OrElse(Lookup(errors, Get(gateway, "provider")), Num(0)), Num(ERROR_LIMIT))

checkErrorLimit(gateway, errors) ==
  Lt(OrElse(Lookup(errors, Get(gateway, "provider")), Num(0)), Num(ERROR_LIMIT))

\* Filter 5 (defined by the class, no longer called)
checkBalanceLimit(gateway, balances, providers) ==
  LET balance == OrElse(Lookup(balances, Get(gateway, "gatewayId")), Num(0))
      provider == providerMapGet(providers, Get(gateway, "provider"))
      minLimit ==
        Nullish(Get(Get(Get(Get(gateway, "metaConfig"), "limit"), "deposit"), "min"),
          Nullish(Get(gateway, "min"),
            Nullish(Get(Get(Get(provider, "limit"), "deposit"), "min"), Num(0))))
  IN Lt(minLimit, balance)

applyAllFiltersThrows(gateway, balances, errors, providers, nowMinutes) ==
  /\ checkStatus(gateway)
  /\ \/ checkTimeRangeThrows(gateway, providers, nowMinutes)
     \/ /\ checkTimeRange(gateway, providers, nowMinutes)
        /\ checkProviderThrows(gateway, providers)

\* a filter chain that leaves the error gate out
applyAllFiltersNoErrorGate(gateway, balances, errors, providers, nowMinutes) ==
  /\ checkStatus(gateway)
  /\ checkTimeRange(gateway, providers, nowMinutes)
  /\ checkProvider(gateway, providers)

applyAllFiltersWithBalance(gateway, balances, errors, providers, nowMinutes) ==
  /\ checkStatus(gateway)
  /\ checkTimeRange(gateway, providers, nowMinutes)
  /\ checkProvider(gateway, providers)
  /\ checkErrorLimit(gateway, errors)
  /\ checkBalanceLimit(gateway, balances, providers)

applyAllFilters(gateway, balances, errors, providers, nowMinutes) ==
  /\ checkStatus(gateway)
  /\ checkTimeRange(gateway, providers, nowMinutes)
  /\ checkProvider(gateway, providers)
  /\ checkErrorLimit(gateway, errors)

----------------------------------------------------------------------------
(* Projection *)

sFixed == <<"f", "i", "x", "e", "d">>

sPercent == <<"p", "e", "r", "c", "e", "n", "t">>

sPercentage == <<"p", "e", "r", "c", "e", "n", "t", "a", "g", "e">>

sGroup == <<"g", "r", "o", "u", "p">>

sIndividual == <<"i", "n", "d", "i", "v", "i", "d", "u", "a", "l">>

sGroupPrefix == <<"G", "r", "o", "u", "p", " ">>

sIndividualPrefix == <<"I", "n", "d", "i", "v", "i", "d", "u", "a", "l", " ">>

sGatewaySuffix == <<" ", "g", "a", "t", "e", "w", "a", "y">>

sMidnight == <<"0", "0", ":", "0", "0">>

sEndOfDay == <<"2", "3", ":", "5", "9">>

\* { type: c.type || 'fixed', value: c.value || 0, min: c.min || 0 }
feeTriple(c) ==
  Obj([type |-> OrElse(Get(c, "type"), Str(sFixed)),
       value |-> OrElse(Get(c, "value"), Num(0)),
       min |-> OrElse(Get(c, "min"), Num(0))])

\* { type: legacyType, value: legacyValue[dir], min: legacyValue.min || 0 }
legacyTriple(fee, legacyValue, dir) ==
  Obj([type |-> OrElse(Get(fee, "type"), Str(sFixed)),
       value |-> Get(legacyValue, dir),
       min |-> OrElse(Get(legacyValue, "min"), Num(0))])

\* a direction that is read from its nested object alone
sanitizedDirectionNestedOnly(fee, dir) ==
  IF Truthy(Get(fee, dir)) THEN feeTriple(Get(fee, dir)) ELSE Undef

\* one direction of the sanitized fee; undefined stands for a key that is not set
sanitizedDirection(fee, dir) ==
  LET legacyValue ==
        IF Truthy(Get(fee, "value")) /\ Get(fee, "value").t \in {"object", "array"}
        THEN Get(fee, "value") ELSE Null
  IN IF Truthy(Get(fee, dir)) THEN feeTriple(Get(fee, dir))
     ELSE IF Truthy(legacyValue) /\ Get(legacyValue, dir).t = "number"
     THEN legacyTriple(fee, legacyValue, dir)
     ELSE Undef

sanitizedSettlement(fee) ==
  LET st == Get(fee, "settlement")
      normal == IF Truthy(Get(st, "normal")) THEN feeTriple(Get(st, "normal")) ELSE Undef
      usdt == IF Truthy(Get(st, "usdt")) THEN feeTriple(Get(st, "usdt")) ELSE Undef
      all == [normal |-> normal, usdt |-> usdt]
  IN IF Truthy(st) THEN Obj([k \in {k \in {"normal", "usdt"} : all[k] # Undef} |-> all[k]])
     ELSE Undef

sanitizeFeeStructure(fee) ==
  IF ~Truthy(fee) THEN EmptyObj
  ELSE LET all == [deposit |-> sanitizedDirection(fee, "deposit"),
                   withdraw |-> sanitizedDirection(fee, "withdraw"),
                   settlement |-> sanitizedSettlement(fee)]
       IN Obj([k \in {k \in DOMAIN all : all[k] # Undef} |-> all[k]])

\* a fee that is cut to two decimals and not rounded
calculateFeeTruncated(amount, feeConfig) ==
  IF ~Truthy(feeConfig) THEN Num(0)
  ELSE IF Get(feeConfig, "type") = Str(sFixed) THEN OrElse(Get(feeConfig, "value"), Num(0))
  ELSE IF Get(feeConfig, "type") \in {Str(sPercentage), Str(sPercent)}
  THEN LET value == OrElse(Get(feeConfig, "value"), Num(0))
           floor == OrElse(Get(feeConfig, "min"), Num(0))
           calculated == Num((amount * value.v) \div 100)
       IN IF Lt(calculated, floor) THEN floor ELSE calculated
  ELSE Num(0)

\* Fee values and minimums are carried in hundredths (150 stands for 1.5), and so are the
\* table entries: Math.round(amount * value / 100 * 100) / 100 is then a rounding, half up,
\* of amount * value / 100 hundredths. The snapshots hold fee values for which the
\* double-precision arithmetic of the code gives this very result (1.5, 1.25, 0.75, 2, 1);
\* a value such as 1.15, whose double lies below the decimal, rounds the tie down.
calculateFee(amount, feeConfig) ==
  IF ~Truthy(feeConfig) THEN Num(0)
  ELSE IF Get(feeConfig, "type") = Str(sFixed) THEN OrElse(Get(feeConfig, "value"), Num(0))
  ELSE IF Get(feeConfig, "type") \in {Str(sPercentage), Str(sPercent)}
  THEN LET value == OrElse(Get(feeConfig, "value"), Num(0))
           floor == OrElse(Get(feeConfig, "min"), Num(0))
           calculated == Num((amount * value.v + 50) \div 100)
       IN IF Lt(calculated, floor) THEN floor ELSE calculated
  ELSE Num(0)

FeeAmounts == {50 * i : i \in 1..20}

\* the table built on a cache miss
freshFeeTable(feeStructure) ==
  Obj([amount \in FeeAmounts |->
         Obj([withdraw |-> calculateFee(amount, Get(feeStructure, "withdraw")),
              deposit |-> calculateFee(amount, Get(feeStructure, "deposit"))])])

\* Number.prototype.toString for a natural number
RECURSIVE NatToStr(_)
NatToStr(n) ==
  IF n < 10 THEN <<Digits[n + 1]>> ELSE NatToStr(n \div 10) \o <<Digits[(n % 10) + 1]>>

\* the keys of the objects the cache key is made of, in the order the code sets them
KeyOrder ==
  <<[key |-> "deposit", chars |-> <<"d", "e", "p", "o", "s", "i", "t">>],
    [key |-> "withdraw", chars |-> <<"w", "i", "t", "h", "d", "r", "a", "w">>],
    [key |-> "type", chars |-> <<"t", "y", "p", "e">>],
    [key |-> "value", chars |-> <<"v", "a", "l", "u", "e">>],
    [key |-> "min", chars |-> <<"m", "i", "n">>]>>

\* JSON.stringify(x): a number as its digits (the hundredths the model carries), a string
\* in quotes, NaN as null, an object as its members in insertion order with a member
\* that is undefined left out
RECURSIVE Stringify(_)
RECURSIVE StringifyMembers(_, _, _)
StringifyMembers(x, n, first) ==
  IF n > Len(KeyOrder) THEN <<>>
  ELSE IF Get(x, KeyOrder[n].key) = Undef THEN StringifyMembers(x, n + 1, first)
  ELSE (IF first THEN <<>> ELSE <<",">>)
         \o <<"\"">> \o KeyOrder[n].chars \o <<"\"", ":">>
         \o Stringify(Get(x, KeyOrder[n].key))
         \o StringifyMembers(x, n + 1, FALSE)

Stringify(x) ==
  CASE x.t = "number" -> NatToStr(x.v)
    [] x.t = "string" -> <<"\"">> \o x.v \o <<"\"">>
    [] x.t = "boolean" -> ToStr(x)
    [] x.t = "object" -> <<"{">> \o StringifyMembers(x, 1, TRUE) \o <<"}">>
    [] OTHER -> <<"n", "u", "l", "l">>

\* a cache key that leaves the withdraw schedule out
cacheKeyOfDepositOnly(feeStructure) ==
  Stringify(Obj([deposit |-> Get(feeStructure, "deposit")]))

\* JSON.stringify({ deposit: feeStructure?.deposit, withdraw: feeStructure?.withdraw })
cacheKeyOf(feeStructure) ==
  Stringify(Obj([deposit |-> Get(feeStructure, "deposit"),
                 withdraw |-> Get(feeStructure, "withdraw")]))

\* the cache is a set of <<key, table>> pairs with at most one pair per key
cacheHas(cache, key) == \E e \in cache : e[1] = key

cacheGet(cache, key) == (CHOOSE e \in cache : e[1] = key)[2]

\* a table generator whose cache hit hands out an empty table
generateFeeEstimationTableHitEmpty(cache, feeStructure) ==
  IF cacheHas(cache, cacheKeyOf(feeStructure)) THEN EmptyObj
  ELSE freshFeeTable(feeStructure)

generateFeeEstimationTable(cache, feeStructure) ==
  IF cacheHas(cache, cacheKeyOf(feeStructure)) THEN cacheGet(cache, cacheKeyOf(feeStructure))
  ELSE freshFeeTable(feeStructure)

\* the cache after generateFeeEstimationTable(feeStructure)
cacheAfterTable(cache, feeStructure) ==
  IF cacheHas(cache, cacheKeyOf(feeStructure)) THEN cache
  ELSE cache \cup {<<cacheKeyOf(feeStructure), freshFeeTable(feeStructure)>>}

\* providerOption ?? gatewayOption ?? {}
chosenOption(providerOption, gatewayOption) ==
  Nullish(providerOption, Nullish(gatewayOption, EmptyObj))

buildOption(cache, providerOption, gatewayOption) ==
  LET option == chosenOption(providerOption, gatewayOption) IN
    IF ~Truthy(Get(option, "fee")) THEN option
    ELSE LET sanitizedFee == sanitizeFeeStructure(Get(option, "fee"))
             table == generateFeeEstimationTable(cache, sanitizedFee)
         IN Obj([k \in DOMAIN option.v \cup {"fee", "feeEstimationTable"} |->
                   IF k = "fee" THEN sanitizedFee
                   ELSE IF k = "feeEstimationTable" THEN table
                   ELSE option.v[k]])

\* the cache after buildOption
cacheAfterOption(cache, providerOption, gatewayOption) ==
  LET option == chosenOption(providerOption, gatewayOption) IN
    IF ~Truthy(Get(option, "fee")) THEN cache
    ELSE cacheAfterTable(cache, sanitizeFeeStructure(Get(option, "fee")))

\* a merge of the limits that takes 0 for unset
mergedLimitFalsy(gateway, provider, dir, bound, fallback) ==
  OrElse(Get(Get(Get(Get(gateway, "metaConfig"), "limit"), dir), bound),
    OrElse(Get(Get(Get(gateway, "limit"), dir), bound),
      OrElse(Get(Get(Get(provider, "limit"), dir), bound), Num(fallback))))

\* a ?? b ?? c ?? fallback over metaConfig.limit, limit and the provider's limit
mergedLimit(gateway, provider, dir, bound, fallback) ==
  Nullish(Get(Get(Get(Get(gateway, "metaConfig"), "limit"), dir), bound),
    Nullish(Get(Get(Get(gateway, "limit"), dir), bound),
      Nullish(Get(Get(Get(provider, "limit"), dir), bound), Num(fallback))))

\* a merge of the operating times that keeps an empty string
mergedTimeNullish(gateway, provider, dir, end, fallback) ==
  Nullish(Get(Get(Get(Get(gateway, "metaConfig"), "operateTime"), dir), end),
    Nullish(Get(Get(Get(gateway, "serviceTime"), dir), end),
      Nullish(Get(Get(Get(provider, "operateTime"), dir), end), Str(fallback))))

\* a || b || c || fallback over metaConfig.operateTime, serviceTime and the provider's operateTime
mergedTime(gateway, provider, dir, end, fallback) ==
  OrElse(Get(Get(Get(Get(gateway, "metaConfig"), "operateTime"), dir), end),
    OrElse(Get(Get(Get(gateway, "serviceTime"), dir), end),
      OrElse(Get(Get(Get(provider, "operateTime"), dir), end), Str(fallback))))

DEFAULT_MIN == 100

DEFAULT_MAX == 1000000

ResponseKeys ==
  {"gatewayId", "provider", "name", "site", "status", "paymentMethods", "min", "max",
   "limit", "balanceLimit", "type", "isGroup", "isInGroup", "group", "description",
   "currentBalance", "totalBalance", "serviceTime", "option"}

\* a balance field that reads the balances map alone
balanceFieldMapOnly(gateway, balances, key) ==
  Nullish(Lookup(balances, Get(gateway, "gatewayId")), Num(0))

\* balances[gateway.gatewayId] ?? gateway[key] ?? 0
balanceField(gateway, balances, key) ==
  Nullish(Lookup(balances, Get(gateway, "gatewayId")), Nullish(Get(gateway, key), Num(0)))

\* a group flag that is set by any groupId other than null and undefined
isGroupOfNonNull(gateway) == ~(Get(gateway, "groupId").t \in {"undefined", "null"})

\* !!gateway.groupId
isGroupOf(gateway) == Truthy(Get(gateway, "groupId"))

\* the fields of the returned object literal
responseField(k, gateway, balances, provider, cache) ==
  LET depositMin == mergedLimit(gateway, provider, "deposit", "min", DEFAULT_MIN)
      depositMax == mergedLimit(gateway, provider, "deposit", "max", DEFAULT_MAX)
      withdrawMin == mergedLimit(gateway, provider, "withdraw", "min", DEFAULT_MIN)
      withdrawMax == mergedLimit(gateway, provider, "withdraw", "max", DEFAULT_MAX)
      groupId == Get(gateway, "groupId")
      isGroup == isGroupOf(gateway)
  IN CASE k = "min" -> depositMin
       [] k = "max" -> depositMax
       [] k = "limit" ->
            Obj([deposit |-> Obj([min |-> depositMin, max |-> depositMax]),
                 withdraw |-> Obj([min |-> withdrawMin, max |-> withdrawMax])])
       [] k = "balanceLimit" ->
            Nullish(Get(Get(gateway, "metaConfig"), "balanceLimit"),
              Nullish(Get(gateway, "balanceLimit"), Null))
       [] k = "type" ->
            Nullish(Get(gateway, "type"), Str(IF isGroup THEN sGroup ELSE sIndividual))
       [] k = "isGroup" -> Bool(isGroup)
       [] k = "isInGroup" -> Nullish(Get(gateway, "isInGroup"), Bool(isGroup))
       [] k = "group" ->
            IF Truthy(groupId) THEN Obj([groupId |-> groupId, groupName |-> groupId])
            ELSE Nullish(Get(gateway, "group"), Null)
       [] k = "description" ->
            OrElse(Get(gateway, "description"),
              Str((IF isGroup THEN sGroupPrefix ELSE sIndividualPrefix)
                    \o ToStr(Get(gateway, "provider")) \o sGatewaySuffix))
       [] k = "currentBalance" -> balanceField(gateway, balances, "currentBalance")
       [] k = "totalBalance" -> balanceField(gateway, balances, "totalBalance")
       [] k = "serviceTime" ->
            Obj([deposit |->
                   Obj([openingTime |-> mergedTime(gateway, provider, "deposit", "openingTime", sMidnight),
                        closingTime |-> mergedTime(gateway, provider, "deposit", "closingTime", sEndOfDay)]),
                 withdraw |->
                   Obj([openingTime |-> mergedTime(gateway, provider, "withdraw", "openingTime", sMidnight),
                        closingTime |-> mergedTime(gateway, provider, "withdraw", "closingTime", sEndOfDay)])])
       [] k = "option" -> buildOption(cache, Get(provider, "option"), Get(gateway, "option"))
       [] OTHER -> Get(gateway, k)

\* a projection that spreads the gateway into the response
mapToResponseSpread(gateway, balances, providers, cache) ==
  LET provider == providerMapGet(providers, Get(gateway, "provider")) IN
    Obj([k \in ResponseKeys \cup DOMAIN gateway.v |->
           IF k \in ResponseKeys THEN responseField(k, gateway, balances, provider, cache)
           ELSE gateway.v[k]])

mapToResponse(gateway, balances, providers, cache) ==
  LET provider == providerMapGet(providers, Get(gateway, "provider")) IN
    Obj([k \in ResponseKeys |-> responseField(k, gateway, balances, provider, cache)])

\* the cache after mapToResponse(gateway)
cacheAfterResponse(gateway, providers, cache) ==
  cacheAfterOption(cache,
    Get(providerMapGet(providers, Get(gateway, "provider")), "option"), Get(gateway, "option"))

\* gateways.filter(applyAllFilters): the positions kept, in input order
RECURSIVE SelectIndices(_, _, _, _, _, _)
SelectIndices(gateways, i, balances, errors, providers, nowMinutes) ==
  IF i > Len(gateways) THEN <<>>
  ELSE (IF applyAllFilters(gateways[i], balances, errors, providers, nowMinutes)
        THEN <<i>> ELSE <<>>)
       \o SelectIndices(gateways, i + 1, balances, errors, providers, nowMinutes)

\* the fee table cache after mapToResponse has run on each of the gateways in turn
RECURSIVE CacheAfterAll(_, _, _)
CacheAfterAll(kept, providers, cache) ==
  IF kept = <<>> THEN cache
  ELSE CacheAfterAll(Tail(kept), providers, cacheAfterResponse(Head(kept), providers, cache))

\* .map(mapToResponse) over the kept gateways: each record is built with the cache the
\* records before it have left
MapResponses(kept, balances, providers, cache) ==
  [records |->
     [j \in 1..Len(kept) |->
        mapToResponse(kept[j], balances, providers,
          CacheAfterAll(SubSeq(kept, 1, j - 1), providers, cache))],
   cache |-> CacheAfterAll(kept, providers, cache)]

\* the call throws when the filter callback throws on some gateway
evaluateFiltersThrows(bd, nowMinutes) ==
  \E i \in 1..Len(gatewaysOf(bd)) :
    applyAllFiltersThrows(gatewaysOf(bd)[i], balancesOf(bd), errorsOf(bd), providersOf(bd), nowMinutes)

\* the kept positions, last first
keptIndicesReversed(bd, nowMinutes) ==
  LET idx == SelectIndices(gatewaysOf(bd), 1, balancesOf(bd), errorsOf(bd), providersOf(bd), nowMinutes)
  IN [j \in 1..Len(idx) |-> idx[Len(idx) + 1 - j]]

\* the input positions of the returned records, in output order
keptIndices(bd, nowMinutes) ==
  SelectIndices(gatewaysOf(bd), 1, balancesOf(bd), errorsOf(bd), providersOf(bd), nowMinutes)

evaluateFilters(bd, req, nowMinutes, cache) ==
  LET idx == keptIndices(bd, nowMinutes)
      kept == [j \in 1..Len(idx) |-> gatewaysOf(bd)[idx[j]]]
  IN MapResponses(kept, balancesOf(bd), providersOf(bd), cache)

\* obj with the fields of r added or replaced
Assign(obj, r) ==
  Obj([k \in DOMAIN obj.v \cup DOMAIN r |-> IF k \in DOMAIN r THEN r[k] ELSE obj.v[k]])

\* a normalization that sets the triples on the fee it was given
feeAfterSanitizeInPlace(fee) == Assign(fee, sanitizeFeeStructure(fee).v)

\* the fee object handed to sanitizeFeeStructure, after the call: the triples are set on
\* `sanitized`, a new object, and the fee is only read
feeAfterSanitize(fee) == fee

\* the option object chosen by buildOption, after the call: the result is a new object
\* literal, and the option is only read and handed to sanitizeFeeStructure
optionAfterBuild(option) ==
  IF ~Truthy(Get(option, "fee")) THEN option
  ELSE Assign(option, [fee |-> feeAfterSanitize(Get(option, "fee"))])

\* the snapshot after evaluateFilters has returned: the filter callbacks and the provider
\* map only read it, and mapToResponse hands to buildOption, for every gateway that is
\* kept, the option of its provider entry or else its own
snapshotAfter(bd, nowMinutes) ==
  LET gateways == gatewaysOf(bd)
      providers == providersOf(bd)
      idx == keptIndices(bd, nowMinutes)
      kept == {idx[j] : j \in 1..Len(idx)}
      entryOption(i) == Get(providerMapGet(providers, Get(gateways[i], "provider")), "option")
      ownBuilt == {i \in kept : entryOption(i).t \in {"undefined", "null"}
                                  /\ ~(Get(gateways[i], "option").t \in {"undefined", "null"})}
      entryBuilt ==
        {n \in 1..Len(providers) :
           \E i \in kept :
             /\ providers[n] = providerMapGet(providers, Get(gateways[i], "provider"))
             /\ ~(entryOption(i).t \in {"undefined", "null"})}
  IN Obj([k \in DOMAIN bd.v |->
            IF k = "gateways"
            THEN Arr([i \in 1..Len(gateways) |->
                        IF i \in ownBuilt
                        THEN Assign(gateways[i], [option |-> optionAfterBuild(Get(gateways[i], "option"))])
                        ELSE gateways[i]])
            ELSE IF k = "providers"
            THEN Arr([n \in 1..Len(providers) |->
                        IF n \in entryBuilt
                        THEN Assign(providers[n], [option |-> optionAfterBuild(Get(providers[n], "option"))])
                        ELSE providers[n]])
            ELSE bd.v[k]])

----------------------------------------------------------------------------
(* Snapshots *)

\* marks a key that an input object does not carry
Absent == [t |-> "absent", v |-> 0]

Pack(r) == Obj([k \in {k \in DOMAIN r : r[k] # Absent} |-> r[k]])

g1 == <<"g", "1">>

g2 == <<"g", "2">>

pA == <<"p", "A">>

pB == <<"p", "B">>

T0900 == <<"0", "9", ":", "0", "0">>

T1700 == <<"1", "7", ":", "0", "0">>

TMalformed == <<"9", "h">>

TOutOfRange == <<"2", "5", ":", "9", "9">>

Window(opening, closing) ==
  Pack([operateTime |->
          Pack([deposit |-> Pack([openingTime |-> opening, closingTime |-> closing])]),
        balanceLimit |-> Null])

SensitiveKeys == {"providerConfig", "_id", "__v", "createdAt", "updatedAt", "backupSite"}

Gateway(id, name, provider, status, metaConfig, sensitive) ==
  Pack([gatewayId |-> id,
        provider |-> provider,
        name |-> Str(name),
        site |-> Str(<<"s">>),
        status |-> status,
        metaConfig |-> metaConfig,
        providerConfig |-> IF sensitive THEN Obj([apiKey |-> Str(<<"k">>)]) ELSE Absent,
        _id |-> IF sensitive THEN Str(<<"6", "5">>) ELSE Absent,
        __v |-> IF sensitive THEN Num(0) ELSE Absent,
        createdAt |-> IF sensitive THEN Str(<<"c">>) ELSE Absent,
        updatedAt |-> IF sensitive THEN Str(<<"u">>) ELSE Absent,
        backupSite |-> IF sensitive THEN Str(<<"b">>) ELSE Absent])

Provider(id, isActive, isDisabled, option) ==
  Pack([provider |-> Str(id), isActive |-> isActive, isDisabled |-> isDisabled, option |-> option])

Snapshot(gateways, balances, errors, providers) ==
  Pack([gateways |-> Arr(gateways), balances |-> balances, errors |-> errors,
        providers |-> providers])

StatusValues ==
  {Absent, Bool(TRUE), Bool(FALSE), Str(<<"A", "c", "t", "i", "v", "e">>),
   Str(<<"t", "r", "u", "e">>), Str(<<"i", "n", "a", "c", "t", "i", "v", "e">>)}

ProviderFieldValues == {Absent, Str(<<>>), Str(<<" ">>), Str(pA), Str(pB)}

WindowValues ==
  {Absent, Window(Str(T0900), Str(T1700)), Window(Str(TMalformed), Str(T1700)),
   Window(Str(T0900), Str(TOutOfRange)), Window(Str(TMalformed), Absent)}

FlagValues == {Absent, Null, Bool(TRUE), Bool(FALSE)}

PercentFee ==
  Obj([fee |-> Obj([deposit |-> Obj([type |-> Str(sPercent), value |-> Num(150), min |-> Num(0)]),
                    withdraw |-> Obj([type |-> Str(sFixed), value |-> Num(1000)])])])

\* one gateway, every combination of the inputs of the four gates
GateGateways ==
  {Gateway(Str(g1), <<"n">>, p, st, w, FALSE) :
     p \in ProviderFieldValues, st \in StatusValues, w \in WindowValues}

GateProviders ==
  {Absent, Arr(<<>>)}
    \cup {Arr(<<Provider(pA, a, d, Absent)>>) : a \in FlagValues, d \in FlagValues}

GateErrors ==
  {Absent, Obj([k \in {pB} |-> Num(5)])}
    \cup {Obj([k \in {pA} |-> Num(n)]) : n \in {4, 5, 6}}

GateBalances == {Absent, Obj([k \in {g1} |-> Num(50)])}

GateSnapshots ==
  {Snapshot(<<g>>, b, e, ps) :
     g \in GateGateways, b \in GateBalances, e \in GateErrors, ps \in GateProviders}

\* one gateway of a registered provider, with every combination of what the projection
\* reads besides the gates
ProjectionGateways ==
  {Gateway(ids[1], <<"n">>, Str(pA), st, w, ids[2]) :
     ids \in {<<Str(g1), FALSE>>, <<Str(g1), TRUE>>, <<Absent, FALSE>>},
     st \in {Bool(TRUE), Bool(FALSE)},
     w \in {Absent, Window(Str(T0900), Str(T1700))}}

ProjectionProviders ==
  {Arr(<<Provider(pA, Bool(TRUE), Bool(FALSE), o)>>) : o \in {Absent, PercentFee}}

ProjectionErrors == {Absent, Obj([k \in {pA} |-> Num(5)])}

ProjectionBalances ==
  {Absent} \cup {Obj([k \in {g1} |-> Num(n)]) : n \in {0, 50, 1000}}

ProjectionSnapshots ==
  {Snapshot(<<g>>, b, e, ps) :
     g \in ProjectionGateways, b \in ProjectionBalances, e \in ProjectionErrors,
     ps \in ProjectionProviders}

\* batches of up to MaxGateways gateways, sound and defective ones mixed
MaxGateways == 3

BatchGateways ==
  {Gateway(Str(g1), <<"a">>, Str(pA), Bool(TRUE), Absent, FALSE),
   Gateway(Str(g2), <<"b">>, Str(pA), Bool(TRUE), Window(Str(T0900), Str(T1700)), TRUE),
   Gateway(Absent, <<"d">>, Str(pA), Bool(TRUE), Absent, FALSE),
   Gateway(Str(g1), <<"e">>, Absent, Bool(TRUE), Absent, FALSE),
   Gateway(Str(g2), <<"f">>, Str(pA), Bool(TRUE), Window(Str(TMalformed), Str(T1700)), FALSE),
   Gateway(Str(g2), <<"h">>, Str(pA), Bool(TRUE), Window(Num(900), Str(T1700)), FALSE)}

BatchProviders ==
  {Absent,
   Arr(<<Provider(pA, Bool(TRUE), Bool(FALSE), PercentFee)>>),
   Arr(<<Provider(pA, Bool(TRUE), Bool(FALSE), Absent), Provider(pA, Bool(FALSE), Bool(FALSE), Absent)>>)}

BatchErrors == {Absent, Obj([k \in {pA} |-> Num(5)])}

BatchBalances == {Absent, Obj([k \in {g1} |-> Num(50)])}

RECURSIVE SeqsUpTo(_, _)
SeqsUpTo(S, n) ==
  IF n = 0 THEN {<<>>}
  ELSE LET shorter == SeqsUpTo(S, n - 1) IN
         shorter \cup {Append(q, x) : q \in {r \in shorter : Len(r) = n - 1}, x \in S}

BatchSnapshots ==
  {Snapshot(gs, b, e, ps) :
     gs \in SeqsUpTo(BatchGateways, MaxGateways), b \in BatchBalances, e \in BatchErrors,
     ps \in BatchProviders}

\* obj with the fields of r that are set added or replaced
With(obj, r) ==
  LET set == {k \in DOMAIN r : r[k] # Absent} IN
    Obj([k \in DOMAIN obj.v \cup set |-> IF k \in set THEN r[k] ELSE obj.v[k]])

\* a gateway and a provider entry that pass the status, provider and error gates
SoundGateway == Gateway(Str(g1), <<"n">>, Str(pA), Bool(TRUE), Absent, FALSE)

SoundProvider == Provider(pA, Bool(TRUE), Bool(FALSE), Absent)

T0800 == <<"0", "8", ":", "0", "0">>

T1000 == <<"1", "0", ":", "0", "0">>

T1600 == <<"1", "6", ":", "0", "0">>

T1800 == <<"1", "8", ":", "0", "0">>

OperateTime(depositOpening, depositClosing, withdrawOpening, withdrawClosing) ==
  Pack([deposit |-> Pack([openingTime |-> depositOpening, closingTime |-> depositClosing]),
        withdraw |-> Pack([openingTime |-> withdrawOpening, closingTime |-> withdrawClosing])])

\* what one level may hold for the operating times: nothing, all four slots, four empty
\* strings, two slots only, and a mix of null, empty and set slots
TimeLevel(o, c, wo, wc) ==
  {Absent,
   OperateTime(Str(o), Str(c), Str(wo), Str(wc)),
   OperateTime(Str(<<>>), Str(<<>>), Str(<<>>), Str(<<>>)),
   OperateTime(Str(o), Absent, Absent, Str(wc)),
   OperateTime(Null, Str(c), Str(wo), Str(<<>>))}

\* one gateway that passes the other gates, with every combination of the three levels
\* the operating times are read from
TimeGateways ==
  {With(SoundGateway, [metaConfig |-> Pack([operateTime |-> m]), serviceTime |-> s]) :
     m \in TimeLevel(T0900, T1700, T1000, T1800), s \in TimeLevel(T1000, T1600, T0800, T1700)}

TimeProviders ==
  {Arr(<<With(SoundProvider, [operateTime |-> p])>>) : p \in TimeLevel(T0800, T1800, T0900, T1600)}

TimeSnapshots ==
  {Snapshot(<<g>>, Absent, Absent, ps) : g \in TimeGateways, ps \in TimeProviders}

\* minutes of the day on both sides of every opening and closing time above
TimeNowValues == {479, 480, 539, 540, 599, 600, 960, 961, 1020, 1021, 1080, 1081}

\* one gateway that passes the gates, with every combination of the group and balance
\* fields the projection reads
RecordGateways ==
  {With(SoundGateway, [groupId |-> gid, type |-> ty, currentBalance |-> cb, totalBalance |-> tb]) :
     gid \in {Absent, Null, Str(<<>>), Str(<<"g", "r", "p">>)},
     ty \in {Absent, Null, Str(sGroup), Str(sIndividual)},
     cb \in {Absent, Num(77)},
     tb \in {Absent, Num(88)}}

RecordBalances ==
  {Absent, Obj([k \in {g2} |-> Num(50)]), Obj([k \in {g1} |-> Null])}
    \cup {Obj([k \in {g1} |-> Num(n)]) : n \in {0, 50}}

RecordSnapshots ==
  {Snapshot(<<g>>, b, Absent, Arr(<<SoundProvider>>)) : g \in RecordGateways, b \in RecordBalances}

Limit(depositMin, depositMax, withdrawMin, withdrawMax) ==
  Pack([deposit |-> Pack([min |-> depositMin, max |-> depositMax]),
        withdraw |-> Pack([min |-> withdrawMin, max |-> withdrawMax])])

\* what one level may hold for the limits: nothing, all four bounds, the deposit bounds
\* only, one bound of each direction, four zeros, and nulls
LimitLevel(dmin, dmax, wmin, wmax) ==
  {Absent,
   Limit(Num(dmin), Num(dmax), Num(wmin), Num(wmax)),
   Pack([deposit |-> Pack([min |-> Num(dmin), max |-> Num(dmax)])]),
   Limit(Num(dmin), Absent, Absent, Num(wmax)),
   Limit(Num(0), Num(0), Num(0), Num(0)),
   Limit(Null, Num(dmax), Null, Null)}

\* one gateway that passes the gates, with every combination of the three levels the
\* limits are read from
LimitGateways ==
  {With(SoundGateway, [metaConfig |-> Pack([limit |-> m]), limit |-> l]) :
     m \in LimitLevel(10, 1000, 20, 2000), l \in LimitLevel(30, 3000, 40, 4000)}

LimitProviders ==
  {Arr(<<With(SoundProvider, [limit |-> p])>>) : p \in LimitLevel(50, 5000, 60, 6000)}

LimitSnapshots ==
  {Snapshot(<<g>>, Absent, Absent, ps) : g \in LimitGateways, ps \in LimitProviders}

\* the legacy layout without a type and a minimum, for the deposit direction alone, with
\* a settlement part of one configuration that has a value only
LegacyDepositFee ==
  Obj([value |-> Obj([deposit |-> Num(200)]),
       settlement |-> Obj([usdt |-> Obj([value |-> Num(100)])])])

\* fee schedules: per-direction configurations with a minimum, the legacy layout with
\* the values under fee.value, one direction only with a settlement part, and
\* configurations without a type or with a type the engine does not know
FeeStructures ==
  {PercentFee.v.fee,
   Obj([deposit |-> Obj([type |-> Str(sPercentage), value |-> Num(125), min |-> Num(100)]),
        withdraw |-> Obj([type |-> Str(sPercent), value |-> Num(75)])]),
   Obj([type |-> Str(sPercent),
        value |-> Obj([deposit |-> Num(200), withdraw |-> Num(100), min |-> Num(300)])]),
   Obj([deposit |-> Obj([type |-> Str(sFixed), value |-> Num(500), min |-> Num(900)]),
        settlement |-> Obj([normal |-> Obj([type |-> Str(sPercent), value |-> Num(100)])])]),
   Obj([deposit |-> Obj([value |-> Num(150)]),
        withdraw |-> Obj([type |-> Str(<<"t", "i", "e", "r">>), value |-> Num(5)])]),
   LegacyDepositFee,
   Obj([type |-> Str(sPercent),
        value |-> Obj([deposit |-> Num(200), withdraw |-> Num(100)]),
        deposit |-> Obj([type |-> Str(sFixed), min |-> Num(100)]),
        settlement |-> EmptyObj])}

GatewayFee == Obj([deposit |-> Obj([type |-> Str(sFixed), value |-> Num(300)])])

\* one gateway that passes the gates, with and without an option of its own
FeeGateways ==
  {With(SoundGateway, [option |-> o]) : o \in {Absent, Obj([fee |-> GatewayFee])}}

\* an option that carries a credential and storage metadata beside its fee, and one that
\* carries a fee table of its own and no fee
KeyedOption ==
  Obj([fee |-> GatewayFee, apiKey |-> Str(<<"k">>), _id |-> Str(<<"6", "5">>), __v |-> Num(0)])

TabledOption ==
  Obj([feeEstimationTable |-> Obj([amount \in {50} |-> Obj([withdraw |-> Num(1), deposit |-> Num(1)])])])

\* its provider without an option, with an option that carries no fee, and with each of
\* the fee schedules
FeeProviders ==
  {Arr(<<With(SoundProvider, [option |-> o])>>) :
     o \in {Absent, Null, EmptyObj, Obj([currency |-> Str(<<"T", "H", "B">>)]), KeyedOption, TabledOption}
             \cup {Obj([fee |-> f]) : f \in FeeStructures}}

FeeSnapshots ==
  {Snapshot(<<g>>, Absent, Absent, ps) : g \in FeeGateways, ps \in FeeProviders}

\* gateways that fail one gate and make another one throw (a switched-off gateway with a
\* number for its opening time, a gateway of an unregistered provider with the same), and
\* gateways that fail one gate only
OrderGateways ==
  {With(SoundGateway, [name |-> Str(<<"a">>)]),
   With(SoundGateway, [name |-> Str(<<"b">>), status |-> Bool(FALSE),
                       metaConfig |-> Window(Num(900), Str(T1700))]),
   With(SoundGateway, [name |-> Str(<<"c">>), provider |-> Str(pB),
                       metaConfig |-> Window(Num(900), Str(T1700))]),
   With(SoundGateway, [name |-> Str(<<"d">>), metaConfig |-> Window(Str(T1000), Str(T1700))]),
   With(SoundGateway, [name |-> Str(<<"e">>), provider |-> Str(pB)]),
   With(SoundGateway, [name |-> Str(<<"f">>), status |-> Bool(FALSE)])}

OrderErrors == {Absent, Obj([k \in {pA} |-> Num(5)]), Obj([k \in {pB} |-> Num(9)])}

\* batches of up to MaxOrderBatch of these gateways
MaxOrderBatch == 2

OrderSnapshots ==
  {Snapshot(gs, Absent, e, Arr(<<SoundProvider>>)) :
     gs \in SeqsUpTo(OrderGateways, MaxOrderBatch) \ {<<>>}, e \in OrderErrors}

OrderNowValues == {599, 600}

\* one gateway that passes the other gates, with a deposit window whose opening time is
\* after its closing time: at one level, and with the two ends taken from two levels
NightGateways ==
  {With(SoundGateway, [metaConfig |-> Window(Str(T1700), Str(T0900))]),
   With(SoundGateway, [serviceTime |-> OperateTime(Str(T1800), Str(T0800), Absent, Absent)]),
   With(SoundGateway, [metaConfig |-> Window(Str(T1800), Absent),
                       serviceTime |-> OperateTime(Str(T0900), Str(T1000), Absent, Absent)]),
   SoundGateway}

NightProviders ==
  {Arr(<<With(SoundProvider, [operateTime |-> p])>>) :
     p \in {Absent, OperateTime(Str(T1600), Str(T0800), Absent, Absent)}}

NightSnapshots ==
  {Snapshot(<<g>>, Absent, Absent, ps) : g \in NightGateways, ps \in NightProviders}

\* minutes of the day from midnight to midnight, on both sides of every time above
NightNowValues == {0, 1, 479, 480, 481, 539, 540, 600, 960, 1019, 1020, 1021, 1080, 1081, 1438, 1439}

RequestValues == {Absent, Obj([errorLimit |-> Num(10)])}

\* minutes of the day read from the clock, one inside and one outside 09:00-17:00
NowValues == {600, 1200}

----------------------------------------------------------------------------
(* Result sink and API *)

\* config.sites, and a site the worker does not serve
Sites == {<<"a">>, <<"b">>}

RequestSites == Sites \cup {<<"c">>}

sKeyPrefix == <<"g", "a", "t", "e", "w", "a", "y", "-", "l", "i", "s", "t", ":">>

\* a primary key that names the stale tier
getPrimaryKeyStale(site) == sKeyPrefix \o site \o <<":", "s", "t", "a", "l", "e">>

\* `gateway-list:${site}:primary`
getPrimaryKey(site) == sKeyPrefix \o site \o <<":", "p", "r", "i", "m", "a", "r", "y">>

\* `gateway-list:${site}:stale`
getStaleKey(site) == sKeyPrefix \o site \o <<":", "s", "t", "a", "l", "e">>

\* `gateway-list:${site}:last-update`
getLastUpdateKey(site) ==
  sKeyPrefix \o site \o <<":", "l", "a", "s", "t", "-", "u", "p", "d", "a", "t", "e">>

RedisKeys ==
  {getPrimaryKey(site) : site \in RequestSites} \cup {getStaleKey(site) : site \in RequestSites}
    \cup {getLastUpdateKey(site) : site \in RequestSites}

\* the value JSON.parse(JSON.stringify(x)) gives: a member that is undefined is left out
\* of its object, an element that is undefined and a NaN become null
RECURSIVE JsonValue(_)
JsonValue(x) ==
  CASE x.t = "object" ->
         Obj([k \in {m \in DOMAIN x.v : x.v[m] # Undef} |-> JsonValue(x.v[k])])
    [] x.t = "array" ->
         Arr([i \in DOMAIN x.v |-> IF x.v[i] = Undef THEN Null ELSE JsonValue(x.v[i])])
    [] x.t = "nan" -> Null
    [] OTHER -> x

\* JSON.stringify(data) as stored under a key, and JSON.parse of it
Serialized(data) == [t |-> "json", v |-> JsonValue(data)]

Parsed(stored) == stored.v

\* the worker's cacheData of one cycle for one site: the filtered list grows by one gateway
\* per cycle, starting empty; the gateways carry no name
CacheData(site, cycle) ==
  Obj([gateways |-> Arr([n \in 1..(cycle - 1) |->
                           Obj([gatewayId |-> Str(NatToStr(n)), name |-> Undef, site |-> Str(site)])]),
       timestamp |-> Str(NatToStr(cycle)),
       site |-> Str(site),
       stats |-> Obj([total |-> Num(cycle), filtered |-> Num(cycle - 1), errorLimit |-> Num(5)])])

\* the answers of POST /v3/gateway
BadRequest ==
  [status |-> 400, success |-> FALSE, code |-> "", data |-> Null,
   error |-> "Missing or invalid site parameter"]

CacheMiss ==
  [status |-> 503, success |-> FALSE, code |-> "CACHE_MISS", data |-> Null,
   error |-> "Gateway list not available. Worker may be initializing."]

ServerError ==
  [status |-> 500, success |-> FALSE, code |-> "", data |-> Null,
   error |-> "Internal server error"]

Success(cachedData, site) ==
  [status |-> 200, success |-> TRUE, code |-> "", error |-> "",
   data |-> Obj([gateways |-> OrElse(Get(cachedData, "gateways"), Arr(<<>>)),
                 cachedAt |-> OrElse(Get(cachedData, "timestamp"), Null),
                 site |-> site])]

\* if (!cachedData) 503 else 200
answerFor(cachedData, site) ==
  IF ~Truthy(cachedData) THEN CacheMiss ELSE Success(cachedData, site)

\* a request body that is not JSON
MalformedBody == [t |-> "malformed", v |-> 0]

Bodies ==
  {MalformedBody, EmptyObj, Obj([site |-> Str(<<>>)]), Obj([site |-> Num(1)])}
    \cup {Obj([site |-> Str(site)]) : site \in RequestSites}

NoAnswer == [status |-> 0, success |-> FALSE, code |-> "", data |-> Null, error |-> ""]

Unread == [t |-> "unread", v |-> 0]

\* no request in progress
IdleApi ==
  [pc |-> "idle", body |-> Undef, failed |-> FALSE, heldPrimary |-> Unread, heldStale |-> Unread,
   response |-> NoAnswer]

\* the CronJob worker (worker.ts) and the Deployment worker (worker-loop.ts)
Workers == {"cron", "loop"}

\* processSite of one site in one cycle: where it stands, the cacheData it made, whether
\* the fetch failed, whether the engine was called, and the keys it has written
IdleProcess ==
  [pc |-> "idle", data |-> Undef, fetchFailed |-> FALSE, invoked |-> FALSE, wrote |-> {}]

\* a run before worker.run() is called
NewRun ==
  [pc |-> "new", shouldStop |-> FALSE, sites |-> {}, elapsed |-> 0, sleepTime |-> 0,
   iterations |-> 0, process |-> [site \in Sites |-> IdleProcess],
   closeCalled |-> FALSE, exitCode |-> -1]

NewRuns == [w \in Workers |-> NewRun]

EmptyLedger == [sites |-> Sites, made |-> [site \in Sites |-> 0], served |-> [site \in Sites |-> 0]]

\* no write in progress, no cycle done
IdleWorker == [pc |-> "idle", site |-> <<>>, data |-> Undef, cycle |-> 0]

EmptyRedis == [key \in RedisKeys |-> Null]

\* redis.get(key): the string stored under the key, null when the key holds nothing
redisGet(store, key) == IF key \in DOMAIN store THEN store[key] ELSE Null

\* what the two tiers hold for a site
heldIn(store, site, tier) ==
  redisGet(store, sKeyPrefix \o site
                    \o (IF tier = "primary" THEN <<":", "p", "r", "i", "m", "a", "r", "y">>
                        ELSE <<":", "s", "t", "a", "l", "e">>))

----------------------------------------------------------------------------
(* The call *)

Threw == [t |-> "throw", v |-> 0]

Init ==
  /\ \/ batchData \in GateSnapshots \cup ProjectionSnapshots /\ request \in RequestValues
                                                           /\ now \in NowValues
     \/ batchData \in BatchSnapshots /\ request = Absent /\ now \in NowValues
     \/ batchData \in TimeSnapshots /\ request = Absent /\ now \in TimeNowValues
     \/ batchData \in RecordSnapshots \cup LimitSnapshots \cup FeeSnapshots
          /\ request = Absent /\ now = 600
     \/ batchData \in NightSnapshots /\ request = Absent /\ now \in NightNowValues
  /\ pc = "idle"
  /\ result = Undef
  /\ feeTableCache = {}
  /\ history = <<>>
  /\ redis = EmptyRedis
  /\ api = IdleApi
  /\ worker = IdleWorker
  /\ runs = NewRuns
  /\ ledger = EmptyLedger

\* evaluateFilters(batchData, request = {})
EvaluateFilters ==
  /\ pc = "idle"
  /\ IF evaluateFiltersThrows(batchData, now)
     THEN /\ result' = Threw
          /\ pc' = "threw"
          /\ UNCHANGED <<batchData, feeTableCache>>
     ELSE /\ batchData' = snapshotAfter(batchData, now)
          /\ result' = Arr(evaluateFilters(batchData, Nullish(request, EmptyObj), now, feeTableCache).records)
          /\ pc' = "returned"
          /\ feeTableCache' = evaluateFilters(batchData, Nullish(request, EmptyObj), now, feeTableCache).cache
  /\ UNCHANGED <<request, now, history, redis, api, worker, runVars>>

Next == EvaluateFilters

Spec == Init /\ [][Next]_vars

----------------------------------------------------------------------------
(* Calls in sequence on one FilterService *)

\* the number of calls in one sequence
MaxCalls == 3

\* the legacy layout and the per-direction layout of one and the same schedule
LegacyFee ==
  Obj([type |-> Str(sPercent),
       value |-> Obj([deposit |-> Num(200), withdraw |-> Num(100), min |-> Num(300)])])

DirectionFee ==
  Obj([deposit |-> Obj([type |-> Str(sPercent), value |-> Num(200), min |-> Num(300)]),
       withdraw |-> Obj([type |-> Str(sPercent), value |-> Num(100), min |-> Num(300)])])

\* schedules that share the deposit part, the deposit and withdraw parts, or nothing
CallFees ==
  {PercentFee.v.fee,
   Obj([deposit |-> Obj([type |-> Str(sPercent), value |-> Num(150), min |-> Num(0)]),
        withdraw |-> Obj([type |-> Str(sPercent), value |-> Num(75)])]),
   With(PercentFee.v.fee, [settlement |-> Obj([usdt |-> Obj([type |-> Str(sFixed), value |-> Num(100)])])]),
   LegacyFee,
   DirectionFee}

FeeProvider(id, fee) == Provider(id, Bool(TRUE), Bool(FALSE), Obj([fee |-> fee]))

\* the snapshot of one site: one gateway per fee schedule, two gateways of two providers,
\* and a gateway with a deposit window
CallSnapshots ==
  {Snapshot(<<SoundGateway>>, Absent, Absent, Arr(<<FeeProvider(pA, f)>>)) : f \in CallFees}
    \cup {Snapshot(<<SoundGateway, Gateway(Str(g2), <<"m">>, Str(pB), Bool(TRUE), Absent, FALSE)>>,
                   Absent, Absent,
                   Arr(<<FeeProvider(pA, DirectionFee), FeeProvider(pB, PercentFee.v.fee)>>))}

WindowSnapshot ==
  Snapshot(<<Gateway(Str(g1), <<"n">>, Str(pA), Bool(TRUE), Window(Str(T0900), Str(T1700)), FALSE)>>,
           Absent, Absent, Arr(<<FeeProvider(pA, PercentFee.v.fee)>>))

CallInputs ==
  {[batchData |-> bd, now |-> 600] : bd \in CallSnapshots}
    \cup {[batchData |-> WindowSnapshot, now |-> n] : n \in {600, 1200}}

InitCalls ==
  /\ \E input \in CallInputs : batchData = input.batchData /\ now = input.now
  /\ request = Absent
  /\ pc = "idle"
  /\ result = Undef
  /\ feeTableCache = {}
  /\ history = <<>>
  /\ redis = EmptyRedis
  /\ api = IdleApi
  /\ worker = IdleWorker
  /\ runs = NewRuns
  /\ ledger = EmptyLedger

\* the caller keeps what the call gave and calls again with the next snapshot
NextCall ==
  /\ pc \in {"returned", "threw"}
  /\ Len(history) + 1 < MaxCalls
  /\ history' = Append(history, [batchData |-> batchData, now |-> now, result |-> result])
  /\ \E input \in CallInputs : batchData' = input.batchData /\ now' = input.now
  /\ pc' = "idle"
  /\ result' = Undef
  /\ UNCHANGED <<request, feeTableCache, redis, api, worker, runVars>>

\* new FilterService(): the next call runs on an instance with an empty cache
NewFilterService ==
  /\ pc \in {"returned", "threw"}
  /\ feeTableCache # {}
  /\ feeTableCache' = {}
  /\ UNCHANGED <<batchData, request, now, pc, result, history, redis, api, worker, runVars>>

NextCalls == EvaluateFilters \/ NextCall \/ NewFilterService

SpecCalls == InitCalls /\ [][NextCalls]_vars

----------------------------------------------------------------------------
(* One call on a batch whose gateways fail and throw at different gates *)

InitOrder ==
  /\ batchData \in OrderSnapshots
  /\ request = Absent
  /\ now \in OrderNowValues
  /\ pc = "idle"
  /\ result = Undef
  /\ feeTableCache = {}
  /\ history = <<>>
  /\ redis = EmptyRedis
  /\ api = IdleApi
  /\ worker = IdleWorker
  /\ runs = NewRuns
  /\ ledger = EmptyLedger

SpecOrder == InitOrder /\ [][Next]_vars

----------------------------------------------------------------------------
(* The worker writing the result sink, and the API reading it *)

\* the number of write cycles of the worker
MaxCycles == 2

InitService ==
  /\ batchData = EmptyObj
  /\ request = Absent
  /\ now = 0
  /\ pc = "off"
  /\ result = Undef
  /\ feeTableCache = {}
  /\ history = <<>>
  /\ redis = EmptyRedis
  /\ api = IdleApi
  /\ worker = IdleWorker
  /\ runs = NewRuns
  /\ ledger = EmptyLedger

\* CacheService.set, first setex: the primary key takes the serialized data
CacheSetPrimary ==
  /\ worker.pc = "idle"
  /\ worker.cycle < MaxCycles
  /\ \E site \in Sites :
       LET data == CacheData(site, worker.cycle + 1) IN
         /\ redis' = [redis EXCEPT ![getPrimaryKey(site)] = Serialized(data)]
         /\ worker' = [pc |-> "stale", site |-> site, data |-> data, cycle |-> worker.cycle + 1]
  /\ UNCHANGED <<engineVars, api, runVars>>

\* the first setex rejects: set rethrows, processSite logs the error and goes on
CacheSetPrimaryFails ==
  /\ worker.pc = "idle"
  /\ worker.cycle < MaxCycles
  /\ worker' = [worker EXCEPT !.cycle = worker.cycle + 1]
  /\ UNCHANGED <<engineVars, redis, api, runVars>>

\* CacheService.set, second setex: the stale key takes the same serialized data
CacheSetStale ==
  /\ worker.pc = "stale"
  /\ redis' = [redis EXCEPT ![getStaleKey(worker.site)] = Serialized(worker.data)]
  /\ worker' = [worker EXCEPT !.pc = "idle", !.site = <<>>, !.data = Undef]
  /\ UNCHANGED <<engineVars, api, runVars>>

\* the second setex rejects: the primary key is written, the stale key is not
CacheSetStaleFails ==
  /\ worker.pc = "stale"
  /\ worker' = [worker EXCEPT !.pc = "idle", !.site = <<>>, !.data = Undef]
  /\ UNCHANGED <<engineVars, redis, api, runVars>>

\* the time to live of a key runs out (config.cache.primaryTtl, config.cache.staleTtl)
Expire ==
  /\ \E key \in RedisKeys :
       /\ redis[key] # Null
       /\ redis' = [redis EXCEPT ![key] = Null]
  /\ UNCHANGED <<engineVars, api, worker, runVars>>

\* POST /v3/gateway up to the call of cache.get: a body that is not JSON gives 500, a
\* missing or non-string site gives 400
Receive ==
  /\ api.pc = "idle"
  /\ \E body \in Bodies :
       api' =
         IF body = MalformedBody
         THEN [IdleApi EXCEPT !.pc = "done", !.body = body, !.response = ServerError]
         ELSE IF ~Truthy(Get(body, "site")) \/ Get(body, "site").t # "string"
         THEN [IdleApi EXCEPT !.pc = "done", !.body = body, !.response = BadRequest]
         ELSE [IdleApi EXCEPT !.pc = "primary", !.body = body]
  /\ UNCHANGED <<engineVars, redis, worker, runVars>>

\* CacheService.get, redis.get of the primary key resolves: a hit is parsed and answered
GetPrimary ==
  /\ api.pc = "primary"
  /\ LET site == Get(api.body, "site")
         primary == redisGet(redis, getPrimaryKey(site.v))
     IN api' =
          IF Truthy(primary)
          THEN [api EXCEPT !.pc = "done", !.heldPrimary = heldIn(redis, site.v, "primary"),
                           !.response = answerFor(Parsed(primary), site)]
          ELSE [api EXCEPT !.pc = "stale", !.heldPrimary = heldIn(redis, site.v, "primary")]
  /\ UNCHANGED <<engineVars, redis, worker, runVars>>

\* redis.get of the primary key rejects: get catches, returns null, and the API answers
\* 503 without reading the stale key
GetPrimaryFails ==
  /\ api.pc = "primary"
  /\ LET site == Get(api.body, "site") IN
       api' = [api EXCEPT !.pc = "done", !.failed = TRUE,
                          !.heldPrimary = heldIn(redis, site.v, "primary"),
                          !.heldStale = heldIn(redis, site.v, "stale"),
                          !.response = answerFor(Null, site)]
  /\ UNCHANGED <<engineVars, redis, worker, runVars>>

\* redis.get of the stale key resolves: a hit is parsed and answered, a miss gives 503
GetStale ==
  /\ api.pc = "stale"
  /\ LET site == Get(api.body, "site")
         stale == redisGet(redis, getStaleKey(site.v))
     IN api' =
          [api EXCEPT !.pc = "done", !.heldStale = heldIn(redis, site.v, "stale"),
                      !.response = answerFor(IF Truthy(stale) THEN Parsed(stale) ELSE Null, site)]
  /\ UNCHANGED <<engineVars, redis, worker, runVars>>

\* redis.get of the stale key rejects
GetStaleFails ==
  /\ api.pc = "stale"
  /\ LET site == Get(api.body, "site") IN
       api' = [api EXCEPT !.pc = "done", !.failed = TRUE,
                          !.heldStale = heldIn(redis, site.v, "stale"),
                          !.response = answerFor(Null, site)]
  /\ UNCHANGED <<engineVars, redis, worker, runVars>>

\* the answer is sent; the next request may come
Reply ==
  /\ api.pc = "done"
  /\ api' = IdleApi
  /\ UNCHANGED <<engineVars, redis, worker, runVars>>

NextService ==
  \/ CacheSetPrimary
  \/ CacheSetPrimaryFails
  \/ CacheSetStale
  \/ CacheSetStaleFails
  \/ Expire
  \/ Receive
  \/ GetPrimary
  \/ GetPrimaryFails
  \/ GetStale
  \/ GetStaleFails
  \/ Reply

SpecService == InitService /\ [][NextService]_vars

----------------------------------------------------------------------------
(* The two worker programs: runs, cycles, and processSite per site *)

\* config.worker.intervalMs, and maxDuration of the CronJob worker
IntervalMs == 15000

MaxDurationMs == 60000

\* how long a fetch cycle took, in milliseconds
CycleDurations == {5000, 45000, 70000}

\* the number that tells the payloads of one site apart: stats.total of CacheData
payloadOf(data) == Get(Get(data, "stats"), "total").v

Max(a, b) == IF a >= b THEN a ELSE b

\* the runs with one of the two programs started and the other not deployed
SingleRuns == {[w \in Workers |-> IF w = one THEN NewRun ELSE [NewRun EXCEPT !.pc = "none"]] :
                 one \in Workers}

\* two workers on one site, or one worker on every site
InitWorker ==
  /\ batchData = EmptyObj
  /\ request = Absent
  /\ now = 0
  /\ pc = "off"
  /\ result = Undef
  /\ feeTableCache = {}
  /\ history = <<>>
  /\ redis = EmptyRedis
  /\ api = IdleApi
  /\ worker = IdleWorker
  /\ \/ runs = NewRuns /\ ledger = [EmptyLedger EXCEPT !.sites = {<<"a">>}]
     \/ runs \in SingleRuns /\ ledger = EmptyLedger

\* the cycles started so far, by both workers
cyclesStarted == runs["cron"].iterations + runs["loop"].iterations

Step(w, site, next) == [runs EXCEPT ![w].process[site] = next]

\* worker.run() up to the loop: the CronJob worker takes config.sites, the Deployment
\* worker awaits refreshSites
StartRun(w) ==
  /\ runs[w].pc = "new"
  /\ runs' = [runs EXCEPT ![w].pc = IF w = "cron" THEN "check" ELSE "sites",
                          ![w].sites = IF w = "cron" THEN ledger.sites ELSE {}]
  /\ UNCHANGED <<engineVars, serviceVars, ledger>>

\* refreshSites resolves: with no site the run shuts down, else it enters the loop
RefreshSites(w) ==
  /\ runs[w].pc = "sites"
  /\ \E found \in {{}, ledger.sites} :
       runs' = [runs EXCEPT ![w].sites = found,
                            ![w].pc = IF found = {} THEN "closing" ELSE "check"]
  /\ UNCHANGED <<engineVars, serviceVars, ledger>>

\* fetchSites rejects with no site known: refreshSites rethrows, run() rejects and the
\* process exits with code 1
RefreshSitesFails(w) ==
  /\ runs[w].pc = "sites"
  /\ runs' = [runs EXCEPT ![w].pc = "exited", ![w].exitCode = 1]
  /\ UNCHANGED <<engineVars, serviceVars, ledger>>

\* a loop that looks at neither shouldStop nor the time elapsed
StartCycleAnyway(w) ==
  /\ runs[w].pc = "check"
  /\ cyclesStarted < MaxCycles
  /\ runs' = [runs EXCEPT ![w].pc = "cycle",
                          ![w].iterations = runs[w].iterations + 1,
                          ![w].process =
                            [site \in Sites |->
                               IF site \in runs[w].sites THEN [IdleProcess EXCEPT !.pc = "fetch"]
                               ELSE IdleProcess]]
  /\ UNCHANGED <<engineVars, serviceVars, ledger>>

\* the loop condition holds: fetchAndUpdate starts processSite for every site
StartCycle(w) ==
  /\ runs[w].pc = "check"
  /\ ~runs[w].shouldStop
  /\ w = "cron" => runs[w].elapsed < MaxDurationMs
  /\ cyclesStarted < MaxCycles
  /\ runs' = [runs EXCEPT ![w].pc = "cycle",
                          ![w].iterations = runs[w].iterations + 1,
                          ![w].process =
                            [site \in Sites |->
                               IF site \in runs[w].sites THEN [IdleProcess EXCEPT !.pc = "fetch"]
                               ELSE IdleProcess]]
  /\ UNCHANGED <<engineVars, serviceVars, ledger>>

\* the loop condition fails: the run goes on to shutdown
LeaveLoop(w) ==
  /\ runs[w].pc = "check"
  /\ runs[w].shouldStop \/ (w = "cron" /\ runs[w].elapsed >= MaxDurationMs)
  /\ runs' = [runs EXCEPT ![w].pc = "closing"]
  /\ UNCHANGED <<engineVars, serviceVars, ledger>>

\* fetchBatchData resolves, evaluateFilters returns, and cacheData is made
Fetch(w, site) ==
  /\ runs[w].pc = "cycle"
  /\ runs[w].process[site].pc = "fetch"
  /\ ledger' = [ledger EXCEPT !.made[site] = ledger.made[site] + 1]
  /\ runs' = Step(w, site, [runs[w].process[site] EXCEPT
                              !.pc = "primary", !.invoked = TRUE,
                              !.data = CacheData(site, ledger.made[site] + 1)])
  /\ UNCHANGED <<engineVars, serviceVars>>

\* a processSite that goes on with an empty snapshot when the fetch fails
FetchFailsGoesOn(w, site) ==
  /\ runs[w].pc = "cycle"
  /\ runs[w].process[site].pc = "fetch"
  /\ ledger' = [ledger EXCEPT !.made[site] = ledger.made[site] + 1]
  /\ runs' = Step(w, site, [runs[w].process[site] EXCEPT
                              !.pc = "primary", !.fetchFailed = TRUE, !.invoked = TRUE,
                              !.data = CacheData(site, ledger.made[site] + 1)])
  /\ UNCHANGED <<engineVars, serviceVars>>

\* fetchBatchData rejects: processSite catches, logs and returns
FetchFails(w, site) ==
  /\ runs[w].pc = "cycle"
  /\ runs[w].process[site].pc = "fetch"
  /\ runs' = Step(w, site, [runs[w].process[site] EXCEPT !.pc = "done", !.fetchFailed = TRUE])
  /\ UNCHANGED <<engineVars, serviceVars, ledger>>

\* fetchBatchData resolves and evaluateFilters throws: processSite catches, logs and returns
EngineThrows(w, site) ==
  /\ runs[w].pc = "cycle"
  /\ runs[w].process[site].pc = "fetch"
  /\ runs' = Step(w, site, [runs[w].process[site] EXCEPT !.pc = "done", !.invoked = TRUE])
  /\ UNCHANGED <<engineVars, serviceVars, ledger>>

\* CacheService.set, first setex resolves
SetPrimary(w, site) ==
  /\ runs[w].pc = "cycle"
  /\ runs[w].process[site].pc = "primary"
  /\ redis' = [redis EXCEPT ![getPrimaryKey(site)] = Serialized(runs[w].process[site].data)]
  /\ ledger' = [ledger EXCEPT !.served[site] =
                                Max(ledger.served[site], payloadOf(runs[w].process[site].data))]
  /\ runs' = Step(w, site, [runs[w].process[site] EXCEPT
                              !.pc = "stale", !.wrote = @ \cup {"primary"}])
  /\ UNCHANGED <<engineVars, api, worker>>

\* the first setex rejects: set rethrows, processSite catches
SetPrimaryFails(w, site) ==
  /\ runs[w].pc = "cycle"
  /\ runs[w].process[site].pc = "primary"
  /\ runs' = Step(w, site, [runs[w].process[site] EXCEPT !.pc = "done", !.data = Undef])
  /\ UNCHANGED <<engineVars, serviceVars, ledger>>

\* CacheService.set, second setex resolves
SetStale(w, site) ==
  /\ runs[w].pc = "cycle"
  /\ runs[w].process[site].pc = "stale"
  /\ redis' = [redis EXCEPT ![getStaleKey(site)] = Serialized(runs[w].process[site].data)]
  /\ runs' = Step(w, site, [runs[w].process[site] EXCEPT
                              !.pc = "stamp", !.wrote = @ \cup {"stale"}])
  /\ UNCHANGED <<engineVars, api, worker, ledger>>

\* the second setex rejects: the primary key is written, the stale key is not
SetStaleFails(w, site) ==
  /\ runs[w].pc = "cycle"
  /\ runs[w].process[site].pc = "stale"
  /\ runs' = Step(w, site, [runs[w].process[site] EXCEPT !.pc = "done", !.data = Undef])
  /\ UNCHANGED <<engineVars, serviceVars, ledger>>

\* setLastUpdate: redis.set of Date.now(), told apart here by the payload it follows
SetLastUpdate(w, site) ==
  /\ runs[w].pc = "cycle"
  /\ runs[w].process[site].pc = "stamp"
  /\ redis' = [redis EXCEPT ![getLastUpdateKey(site)] =
                              Str(NatToStr(payloadOf(runs[w].process[site].data)))]
  /\ runs' = Step(w, site, [runs[w].process[site] EXCEPT
                              !.pc = "done", !.data = Undef, !.wrote = @ \cup {"last-update"}])
  /\ UNCHANGED <<engineVars, api, worker, ledger>>

\* redis.set rejects: setLastUpdate catches and logs
SetLastUpdateFails(w, site) ==
  /\ runs[w].pc = "cycle"
  /\ runs[w].process[site].pc = "stamp"
  /\ runs' = Step(w, site, [runs[w].process[site] EXCEPT !.pc = "done", !.data = Undef])
  /\ UNCHANGED <<engineVars, serviceVars, ledger>>

\* Promise.all resolves: the iteration took some time, and the run sleeps for the rest of
\* the interval when its condition for sleeping holds
EndCycle(w) ==
  /\ runs[w].pc = "cycle"
  /\ \A site \in runs[w].sites : runs[w].process[site].pc = "done"
  /\ \E iterationDuration \in CycleDurations :
       LET sleepTime == Max(0, IntervalMs - iterationDuration)
           elapsed == IF w = "cron" THEN runs[w].elapsed + iterationDuration ELSE 0
           sleeps == IF w = "cron" THEN sleepTime > 0 /\ elapsed + sleepTime < MaxDurationMs
                     ELSE sleepTime > 0 /\ ~runs[w].shouldStop
       IN runs' = [runs EXCEPT ![w].pc = IF sleeps THEN "sleep" ELSE "check",
                               ![w].process = [site \in Sites |-> IdleProcess],
                               ![w].elapsed = elapsed,
                               ![w].sleepTime = IF sleeps THEN sleepTime ELSE 0]
  /\ UNCHANGED <<engineVars, serviceVars, ledger>>

\* the timer of sleep fires
Wake(w) ==
  /\ runs[w].pc = "sleep"
  /\ runs' = [runs EXCEPT ![w].pc = "check",
                          ![w].elapsed = IF w = "cron" THEN @ + runs[w].sleepTime ELSE 0,
                          ![w].sleepTime = 0]
  /\ UNCHANGED <<engineVars, serviceVars, ledger>>

\* SIGTERM or SIGINT: stop() sets shouldStop
Stop(w) ==
  /\ runs[w].pc \notin {"none", "exited"}
  /\ ~runs[w].shouldStop
  /\ runs' = [runs EXCEPT ![w].shouldStop = TRUE]
  /\ UNCHANGED <<engineVars, serviceVars, ledger>>

\* shutdown: cache.close() resolves, run() resolves and the process exits with code 0
Close(w) ==
  /\ runs[w].pc = "closing"
  /\ runs' = [runs EXCEPT ![w].pc = "exited", ![w].closeCalled = TRUE, ![w].exitCode = 0]
  /\ UNCHANGED <<engineVars, serviceVars, ledger>>

\* redis.quit() rejects: run() rejects and the process exits with code 1
CloseFails(w) ==
  /\ runs[w].pc = "closing"
  /\ runs' = [runs EXCEPT ![w].pc = "exited", ![w].closeCalled = TRUE, ![w].exitCode = 1]
  /\ UNCHANGED <<engineVars, serviceVars, ledger>>

\* what a worker does by itself: every step but the arrival of a signal
WorkerStep(w) ==
  \/ StartRun(w) \/ RefreshSites(w) \/ RefreshSitesFails(w)
  \/ StartCycle(w) \/ LeaveLoop(w) \/ EndCycle(w) \/ Wake(w)
  \/ Close(w) \/ CloseFails(w)
  \/ \E site \in Sites :
       \/ Fetch(w, site) \/ FetchFails(w, site) \/ EngineThrows(w, site)
       \/ SetPrimary(w, site) \/ SetPrimaryFails(w, site)
       \/ SetStale(w, site) \/ SetStaleFails(w, site)
       \/ SetLastUpdate(w, site) \/ SetLastUpdateFails(w, site)

NextWorker ==
  \/ \E w \in Workers : StartRun(w)
  \/ \E w \in Workers : RefreshSites(w)
  \/ \E w \in Workers : RefreshSitesFails(w)
  \/ \E w \in Workers : StartCycle(w)
  \/ \E w \in Workers : LeaveLoop(w)
  \/ \E w \in Workers, site \in Sites : Fetch(w, site)
  \/ \E w \in Workers, site \in Sites : FetchFails(w, site)
  \/ \E w \in Workers, site \in Sites : EngineThrows(w, site)
  \/ \E w \in Workers, site \in Sites : SetPrimary(w, site)
  \/ \E w \in Workers, site \in Sites : SetPrimaryFails(w, site)
  \/ \E w \in Workers, site \in Sites : SetStale(w, site)
  \/ \E w \in Workers, site \in Sites : SetStaleFails(w, site)
  \/ \E w \in Workers, site \in Sites : SetLastUpdate(w, site)
  \/ \E w \in Workers, site \in Sites : SetLastUpdateFails(w, site)
  \/ \E w \in Workers : EndCycle(w)
  \/ \E w \in Workers : Wake(w)
  \/ \E w \in Workers : Close(w)
  \/ \E w \in Workers : CloseFails(w)

SpecWorker == InitWorker /\ [][NextWorker]_vars

(* One worker process by itself, with the signals that may reach it *)

InitRun ==
  /\ batchData = EmptyObj
  /\ request = Absent
  /\ now = 0
  /\ pc = "off"
  /\ result = Undef
  /\ feeTableCache = {}
  /\ history = <<>>
  /\ redis = EmptyRedis
  /\ api = IdleApi
  /\ worker = IdleWorker
  /\ runs \in SingleRuns
  /\ ledger = EmptyLedger

NextRun ==
  \/ NextWorker
  \/ \E w \in Workers : Stop(w)

SpecRun == InitRun /\ [][NextRun]_vars

\* every await of a run settles and every timer fires: fetches time out, redis calls
\* resolve or reject
FairRun == SpecRun /\ \A w \in Workers : WF_vars(WorkerStep(w))

----------------------------------------------------------------------------
(* Properties *)

Returned == pc = "returned"

InputGateways == gatewaysOf(batchData)

InputProviders == providersOf(batchData)

InputErrors == errorsOf(batchData)

Output == result.v

IdentityKeys == {"gatewayId", "provider", "name", "site", "status"}

\* record rec was made from gateway gw
MadeFrom(rec, gw) == \A k \in IdentityKeys : Get(rec, k) = Get(gw, k)

\* input gateway i has a record in the output
Appears(i) == \E j \in 1..Len(Output) : MadeFrom(Output[j], InputGateways[i])

\* the provider entry the engine looks up for input gateway i
EntryOf(i) == providerMapGet(InputProviders, Get(InputGateways[i], "provider"))

StatusPasses(i) == checkStatus(InputGateways[i])

WindowPasses(i) ==
  /\ ~checkTimeRangeThrows(InputGateways[i], InputProviders, now)
  /\ checkTimeRange(InputGateways[i], InputProviders, now)

ProviderPasses(i) == checkProvider(InputGateways[i], InputProviders)

ErrorPasses(i) == checkErrorLimit(InputGateways[i], InputErrors)

Unset(x) == x.t \in {"undefined", "null"}

\* C1: the output is a subsequence of the input gateways: some strictly increasing map of
\* output positions to input positions pairs every record with the gateway it was made
\* from, so the output is no longer than the input and keeps the input order.
C1_StableSubsequence ==
  Returned =>
    /\ Len(Output) <= Len(InputGateways)
    /\ \E f \in [1..Len(Output) -> 1..Len(InputGateways)] :
         /\ \A j \in 1..Len(Output) : MadeFrom(Output[j], InputGateways[f[j]])
         /\ \A j, k \in 1..Len(Output) : j < k => f[j] < f[k]

C1_Witness ==
  /\ Returned
  /\ Len(InputGateways) = 3
  /\ Len(Output) = 2
  /\ ~Appears(2)
  /\ Get(Output[1], "gatewayId") = Str(g2)
  /\ Get(Output[2], "gatewayId") = Str(g1)

C3_UnsetFlagsPass ==
  Returned =>
    \A i \in 1..Len(InputGateways) :
      /\ EntryOf(i).t = "object"
      /\ Unset(Get(EntryOf(i), "isActive"))
      /\ Unset(Get(EntryOf(i), "isDisabled"))
      /\ StatusPasses(i) /\ WindowPasses(i) /\ ErrorPasses(i)
      => Appears(i)

\* C4: a gateway whose provider entry has isActive false or isDisabled true has no record
\* in the output.
C4_InactiveProviderExcluded ==
  Returned =>
    \A i \in 1..Len(InputGateways) :
      (Get(EntryOf(i), "isActive") = Bool(FALSE) \/ Get(EntryOf(i), "isDisabled") = Bool(TRUE))
        => ~Appears(i)

C4_Witness ==
  /\ Returned
  /\ Len(InputGateways) = 1
  /\ Get(EntryOf(1), "isActive") = Bool(TRUE)
  /\ Get(EntryOf(1), "isDisabled") = Bool(TRUE)
  /\ StatusPasses(1) /\ WindowPasses(1) /\ ErrorPasses(1)
  /\ Output = <<>>

\* the error count the claim speaks of: errors[gateway.provider], 0 when there is no entry
ErrorCount(i) ==
  LET c == Lookup(InputErrors, Get(InputGateways[i], "provider")) IN
    IF c.t = "number" THEN c.v ELSE 0

NamedStatus(st) ==
  \/ st = Bool(TRUE)
  \/ st.t = "string" /\ ToLowerCase(st.v) \in validStatuses

\* C6: a gateway whose status is neither boolean true nor one of the named strings
\* (false, absent, any other string) has no record in the output.
C6_OtherStatusExcluded ==
  Returned =>
    \A i \in 1..Len(InputGateways) :
      ~NamedStatus(Get(InputGateways[i], "status")) => ~Appears(i)

C6_Witness ==
  /\ Returned
  /\ Len(InputGateways) = 1
  /\ Get(InputGateways[1], "status") = Str(<<"i", "n", "a", "c", "t", "i", "v", "e">>)
  /\ WindowPasses(1) /\ ProviderPasses(1) /\ ErrorPasses(1)
  /\ Output = <<>>

\* C7: a gateway whose status is one of the named strings is in the output whenever the
\* time-window, provider and error gates pass.
C7_LegacyStringPasses ==
  Returned =>
    \A i \in 1..Len(InputGateways) :
      /\ Get(InputGateways[i], "status").t = "string"
      /\ NamedStatus(Get(InputGateways[i], "status"))
      /\ WindowPasses(i) /\ ProviderPasses(i) /\ ErrorPasses(i)
      => Appears(i)

Whitelist ==
  {"gatewayId", "provider", "name", "site", "status", "paymentMethods", "min", "max",
   "limit", "balanceLimit", "type", "isGroup", "isInGroup", "group", "description",
   "currentBalance", "totalBalance", "serviceTime", "option"}

GateOpening(i) == gateOpeningTime(InputGateways[i], EntryOf(i))

GateClosing(i) == gateClosingTime(InputGateways[i], EntryOf(i))

\* every provider and time value the gates read is a string or is missing
StringTyped ==
  \A i \in 1..Len(InputGateways) :
    \A x \in {Get(InputGateways[i], "provider"), GateOpening(i), GateClosing(i)} :
      x.t \in {"undefined", "null", "string"}

MissingProvider(i) ==
  LET p == Get(InputGateways[i], "provider") IN Unset(p) \/ (p.t = "string" /\ Trim(p.v) = <<>>)

\* a time of day written HH:MM
WellFormedTime(s) ==
  /\ Len(s) = 5
  /\ s[3] = ":"
  /\ \A n \in {1, 2, 4, 5} : IsDigit(s[n])
  /\ DecimalValue(SubSeq(s, 1, 2), 0) <= 23
  /\ DecimalValue(SubSeq(s, 4, 5), 0) <= 59

MalformedTime(x) == x.t = "string" /\ x.v # <<>> /\ ~WellFormedTime(x.v)

\* both ends of the window are set and one of them does not parse to a number
UnparsableWindow(i) ==
  /\ GateOpening(i).t = "string" /\ GateOpening(i).v # <<>>
  /\ GateClosing(i).t = "string" /\ GateClosing(i).v # <<>>
  /\ (minutesOf(GateOpening(i)) = NaN \/ minutesOf(GateClosing(i)) = NaN)

AllGatesPass(i) == StatusPasses(i) /\ WindowPasses(i) /\ ProviderPasses(i) /\ ErrorPasses(i)

RECURSIVE FirstPresent(_)
FirstPresent(seq) ==
  IF seq = <<>> THEN Undef
  ELSE IF Unset(Head(seq)) THEN FirstPresent(Tail(seq)) ELSE Head(seq)

\* what the three levels hold for one operating-time slot of input gateway i, in the
\* order of precedence
TimeLevels(i, dir, end) ==
  <<Get(Get(Get(Get(InputGateways[i], "metaConfig"), "operateTime"), dir), end),
    Get(Get(Get(InputGateways[i], "serviceTime"), dir), end),
    Get(Get(Get(EntryOf(i), "operateTime"), dir), end)>>

IsTime(x) == x.t = "string" /\ WellFormedTime(x.v)

\* the minute of the day a well-formed HH:MM names
MinuteOfDay(x) == DecimalValue(SubSeq(x.v, 1, 2), 0) * 60 + DecimalValue(SubSeq(x.v, 4, 5), 0)

OtherGatesPass(i) == StatusPasses(i) /\ ProviderPasses(i) /\ ErrorPasses(i)

BalanceEntry(i) == Lookup(balancesOf(batchData), Get(InputGateways[i], "gatewayId"))

LimitLevels(i, dir, bound) ==
  <<Get(Get(Get(Get(InputGateways[i], "metaConfig"), "limit"), dir), bound),
    Get(Get(Get(InputGateways[i], "limit"), dir), bound),
    Get(Get(Get(EntryOf(i), "limit"), dir), bound)>>

\* C13: for each direction and each bound on its own, the limit of a record is the first
\* value present among metaConfig.limit, limit and the provider's limit of its gateway,
\* and otherwise 100 for min and 1000000 for max.
C13_LimitPrecedence ==
  Returned =>
    \A i \in 1..Len(InputGateways) : \A j \in 1..Len(Output) :
      MadeFrom(Output[j], InputGateways[i]) =>
        \A dir \in {"deposit", "withdraw"} : \A bound \in {"min", "max"} :
          LET first == FirstPresent(LimitLevels(i, dir, bound)) IN
            Get(Get(Get(Output[j], "limit"), dir), bound) =
              (IF ~Unset(first) THEN first
               ELSE IF bound = "min" THEN Num(100) ELSE Num(1000000))

\* one record with its deposit bounds from the gateway's metaConfig and its withdraw
\* bounds from the provider
C13_Witness ==
  /\ Returned
  /\ Len(Output) = 1
  /\ LimitLevels(1, "deposit", "min") = <<Num(10), Undef, Num(50)>>
  /\ LimitLevels(1, "withdraw", "min") = <<Undef, Undef, Num(60)>>
  /\ Get(Output[1], "limit") =
       Obj([deposit |-> Obj([min |-> Num(10), max |-> Num(1000)]),
            withdraw |-> Obj([min |-> Num(60), max |-> Num(6000)])])

\* the first value of a sequence that is set and is not the empty string (undefined if none)
RECURSIVE FirstNonEmpty(_)
FirstNonEmpty(seq) ==
  IF seq = <<>> THEN Undef
  ELSE IF Unset(Head(seq)) \/ Head(seq) = Str(<<>>) THEN FirstNonEmpty(Tail(seq))
  ELSE Head(seq)

\* C14: each of the four serviceTime strings of a record is the first non-empty value
\* among metaConfig.operateTime, serviceTime and the provider's operateTime of its gateway
\* for that slot, and otherwise 00:00 for an opening and 23:59 for a closing time; an
\* empty string counts as unset.
C14_ServiceTimePrecedence ==
  Returned =>
    \A i \in 1..Len(InputGateways) : \A j \in 1..Len(Output) :
      MadeFrom(Output[j], InputGateways[i]) =>
        \A dir \in {"deposit", "withdraw"} : \A end \in {"openingTime", "closingTime"} :
          LET first == FirstNonEmpty(TimeLevels(i, dir, end)) IN
            Get(Get(Get(Output[j], "serviceTime"), dir), end) =
              (IF first # Undef THEN first
               ELSE IF end = "openingTime" THEN Str(<<"0", "0", ":", "0", "0">>)
               ELSE Str(<<"2", "3", ":", "5", "9">>))

\* metaConfig holds empty strings, so the record shows the times of serviceTime
C14_Witness ==
  /\ Returned
  /\ Len(Output) = 1
  /\ TimeLevels(1, "deposit", "openingTime") = <<Str(<<>>), Str(T1000), Str(T0800)>>
  /\ TimeLevels(1, "withdraw", "closingTime") = <<Str(<<>>), Str(T1700), Str(T1600)>>
  /\ Get(Get(Get(Output[1], "serviceTime"), "deposit"), "openingTime") = Str(T1000)
  /\ Get(Get(Get(Output[1], "serviceTime"), "withdraw"), "closingTime") = Str(T1700)

\* n / d rounded to the nearest integer, a tie going up
Rounded(n, d) ==
  CHOOSE r \in {n \div d, n \div d + 1} : 2 * d * r - d <= 2 * n /\ 2 * n < 2 * d * r + d

PercentTypes == {Str(<<"p", "e", "r", "c", "e", "n", "t">>),
                 Str(<<"p", "e", "r", "c", "e", "n", "t", "a", "g", "e">>)}

\* the table entry the claim gives for one amount and one direction of a normalized fee
\* (amounts in units, fee values and entries in hundredths)
StatedFee(amount, config) ==
  LET share == Rounded(amount * Get(config, "value").v, 100) IN
    IF share < Get(config, "min").v THEN Get(config, "min") ELSE Num(share)

ProviderFee(i) == Get(Get(EntryOf(i), "option"), "fee")

OwnFee(i) == Get(Get(InputGateways[i], "option"), "fee")

\* C16: the fee schedule of a record is the provider's option.fee when the provider has
\* one and otherwise the gateway's own option.fee; whenever either of them carries a fee,
\* the option of the record holds that fee normalized and the table computed from it.
C16_ProviderFeePreferred ==
  Returned =>
    \A i \in 1..Len(InputGateways) : \A j \in 1..Len(Output) :
      MadeFrom(Output[j], InputGateways[i]) =>
        LET schedule == IF Truthy(ProviderFee(i)) THEN ProviderFee(i) ELSE OwnFee(i) IN
          Truthy(schedule) =>
            /\ Get(Get(Output[j], "option"), "fee") = sanitizeFeeStructure(schedule)
            /\ Get(Get(Output[j], "option"), "feeEstimationTable") =
                 freshFeeTable(sanitizeFeeStructure(schedule))

\* the type the claim gives a record: the gateway's own when it names one, otherwise by
\* the group flag of the record
StatedType(rec, gw) ==
  IF ~Unset(Get(gw, "type")) THEN Get(gw, "type")
  ELSE IF Get(rec, "isGroup") = Bool(TRUE) THEN Str(<<"g", "r", "o", "u", "p">>)
  ELSE Str(<<"i", "n", "d", "i", "v", "i", "d", "u", "a", "l">>)

\* C19 as stated: isGroup of a record is true exactly when the groupId of its gateway is
\* non-null; type is the gateway's explicit type when it names one, and otherwise group
\* or individual by isGroup.
C19_NonNullGroupId ==
  Returned =>
    \A i \in 1..Len(InputGateways) : \A j \in 1..Len(Output) :
      MadeFrom(Output[j], InputGateways[i]) =>
        /\ Get(Output[j], "isGroup") = Bool(~Unset(Get(InputGateways[i], "groupId")))
        /\ Get(Output[j], "type") = StatedType(Output[j], InputGateways[i])

\* C19 amended: isGroup of a record is true exactly when the groupId of its gateway is
\* set and is not the empty string (null, an absent key and '' all give false); type is
\* as stated.
C19_GroupClassification ==
  Returned =>
    \A i \in 1..Len(InputGateways) : \A j \in 1..Len(Output) :
      MadeFrom(Output[j], InputGateways[i]) =>
        LET groupId == Get(InputGateways[i], "groupId") IN
          /\ Get(Output[j], "isGroup") = Bool(~Unset(groupId) /\ groupId # Str(<<>>))
          /\ Get(Output[j], "type") = StatedType(Output[j], InputGateways[i])

\* a groupId that is the empty string: the record is not a group and is typed individual
C19_Witness ==
  /\ Returned
  /\ Len(Output) = 1
  /\ Get(InputGateways[1], "groupId") = Str(<<>>)
  /\ Get(InputGateways[1], "type") = Undef
  /\ Get(Output[1], "isGroup") = Bool(FALSE)
  /\ Get(Output[1], "type") = Str(sIndividual)

\* the records of a result that carry a fee table
WithTable(res) == {j \in 1..Len(res.v) : Get(Get(res.v[j], "option"), "feeEstimationTable") # Undef}

\* C17: in any sequence of calls on one FilterService, every fee table returned equals the
\* table computed without the cache from the normalized fee of its own record, and the
\* result of a call is what a FilterService with an empty cache returns for the same
\* snapshot at the same time.
C17_CacheNotObservable ==
  Returned =>
    /\ \A j \in WithTable(result) :
         Get(Get(Output[j], "option"), "feeEstimationTable") =
           freshFeeTable(Get(Get(Output[j], "option"), "fee"))
    /\ result = Arr(evaluateFilters(batchData, EmptyObj, now, {}).records)

\* the cache keys of the fee schedules of a result
KeysOf(res) == {cacheKeyOf(Get(Get(res.v[j], "option"), "fee")) : j \in WithTable(res)}

\* a call whose table comes from the cache: the first call, on another snapshot, built the
\* table for the same deposit and withdraw schedule, and the cache still holds a table
\* that only the first call can have put there
C17_Witness ==
  /\ Returned
  /\ Len(history) = 2
  /\ history[1].batchData # batchData
  /\ KeysOf(result) \cap KeysOf(history[1].result) # {}
  /\ \E e \in feeTableCache :
       e[1] \in KeysOf(history[1].result) \ (KeysOf(history[2].result) \cup KeysOf(result))

\* C18: a call with the snapshot and the evaluation time of an earlier call, on the same
\* FilterService or on a new one, returns what the earlier call returned.
C18_Idempotent ==
  pc \in {"returned", "threw"} =>
    \A n \in 1..Len(history) :
      (history[n].batchData = batchData /\ history[n].now = now) => result = history[n].result

\* the same snapshot twice in a row on one FilterService, the second call served from the
\* cache the first one filled
C18_Witness ==
  /\ Returned
  /\ Len(history) = 1
  /\ history[1].batchData = batchData
  /\ history[1].now = now
  /\ Len(Output) = 2
  /\ WithTable(result) = {1, 2}
  /\ feeTableCache # {}
  /\ result = history[1].result

\* the request in progress names a site, and has been answered
Answered == api.pc = "done" /\ Get(api.body, "site").t = "string" /\ Get(api.body, "site").v # <<>>

\* the answer that hands out the data a tier held
AnswerWith(held) == Success(Parsed(held), Get(api.body, "site"))

\* C20 as stated: a request for a site is answered with the data of the primary tier when
\* that tier holds data for the site at the time it is consulted, otherwise with the data
\* of the stale tier, which is read whenever the primary tier is found empty, and with
\* 503 CACHE_MISS exactly when neither tier holds data.
C20_TierFallback ==
  Answered =>
    /\ api.heldPrimary \notin {Null, Unread} => api.response = AnswerWith(api.heldPrimary)
    /\ api.heldPrimary = Null => api.heldStale # Unread
    /\ (api.heldPrimary = Null /\ api.heldStale \notin {Null, Unread}) =>
         api.response = AnswerWith(api.heldStale)
    /\ api.response = CacheMiss <=> (api.heldPrimary = Null /\ api.heldStale = Null)

\* C20 amended: when the reads of the cache succeed, the answer is as stated; when a read
\* fails, the answer is 503 CACHE_MISS whatever the tiers hold. The stale tier is read
\* whenever the primary tier is found empty.
C20_TierFallbackOnReads ==
  Answered =>
    /\ ~api.failed =>
         /\ api.heldPrimary \notin {Null, Unread} => api.response = AnswerWith(api.heldPrimary)
         /\ api.heldPrimary = Null => api.heldStale # Unread
         /\ (api.heldPrimary = Null /\ api.heldStale \notin {Null, Unread}) =>
              api.response = AnswerWith(api.heldStale)
         /\ api.response = CacheMiss <=> (api.heldPrimary = Null /\ api.heldStale = Null)
    /\ api.failed => api.response = CacheMiss

\* the primary key has run out and the stale key still holds the data of a write: the
\* request is answered from the stale tier
C20_Witness ==
  /\ Answered
  /\ ~api.failed
  /\ api.heldPrimary = Null
  /\ api.heldStale = Serialized(CacheData(<<"a">>, 2))
  /\ api.response.status = 200
  /\ Get(api.response.data, "cachedAt") = Str(<<"2">>)
  /\ Len(Get(api.response.data, "gateways").v) = 1
  /\ DOMAIN Get(api.response.data, "gateways").v[1].v = {"gatewayId", "site"}

\* the provider entry of input gateway i carries neither an isActive nor an isDisabled field
LegacyEntry(i) ==
  /\ EntryOf(i).t = "object"
  /\ "isActive" \notin DOMAIN EntryOf(i).v
  /\ "isDisabled" \notin DOMAIN EntryOf(i).v

InputOptionKeys(i) ==
  (IF Get(EntryOf(i), "option").t = "object" THEN DOMAIN Get(EntryOf(i), "option").v ELSE {})
    \cup (IF Get(InputGateways[i], "option").t = "object"
          THEN DOMAIN Get(InputGateways[i], "option").v ELSE {})

\* C23: the option of every output record holds a normalized fee and the table computed
\* from it and nothing else: no other key of an input option is on it, and a
\* feeEstimationTable on it is the one computed from its fee, never one the input supplied.
C23_OptionHoldsFeeOnly ==
  Returned =>
    \A j \in 1..Len(Output) :
      LET option == Get(Output[j], "option") IN
        /\ DOMAIN option.v \subseteq {"fee", "feeEstimationTable"}
        /\ "feeEstimationTable" \in DOMAIN option.v =>
             /\ "fee" \in DOMAIN option.v
             /\ Get(option, "feeEstimationTable") = freshFeeTable(Get(option, "fee"))

\* the deposit window on output record j
OutputOpening(j) == Get(Get(Get(Output[j], "serviceTime"), "deposit"), "openingTime")

OutputClosing(j) == Get(Get(Get(Output[j], "serviceTime"), "deposit"), "closingTime")

\* C24: the deposit window on every output record is a window of two times of day that
\* contains the time of the evaluation, opening <= now <= closing in minutes of the day.
C24_OutputWindowContainsNow ==
  Returned =>
    \A j \in 1..Len(Output) :
      /\ IsTime(OutputOpening(j))
      /\ IsTime(OutputClosing(j))
      /\ MinuteOfDay(OutputOpening(j)) <= now
      /\ now <= MinuteOfDay(OutputClosing(j))

GateNames == {"status", "time", "provider", "error"}

\* the orders the four gates can be evaluated in
GateOrders == {o \in [1..4 -> GateNames] : \A m, n \in 1..4 : m # n => o[m] # o[n]}

CodeOrder == <<"status", "time", "provider", "error">>

\* what one gate does on input gateway i: it passes, it fails, or it throws
GateResult(name, i) ==
  CASE name = "status" -> IF StatusPasses(i) THEN "pass" ELSE "fail"
    [] name = "time" ->
         IF checkTimeRangeThrows(InputGateways[i], InputProviders, now) THEN "throw"
         ELSE IF checkTimeRange(InputGateways[i], InputProviders, now) THEN "pass" ELSE "fail"
    [] name = "provider" ->
         IF checkProviderThrows(InputGateways[i], InputProviders) THEN "throw"
         ELSE IF ProviderPasses(i) THEN "pass" ELSE "fail"
    [] name = "error" -> IF ErrorPasses(i) THEN "pass" ELSE "fail"

\* the gates evaluated one after the other from position n of an order, stopping at the
\* first that does not pass
RECURSIVE ChainResult(_, _, _)
ChainResult(order, n, i) ==
  IF n > Len(order) THEN "pass"
  ELSE IF GateResult(order[n], i) = "pass" THEN ChainResult(order, n + 1, i)
  ELSE GateResult(order[n], i)

\* the call under an order: it throws when the chain throws on some gateway, and else
\* returns the gateways whose chain passes
ThrowsUnder(order) == \E i \in 1..Len(InputGateways) : ChainResult(order, 1, i) = "throw"

KeptUnder(order) == {i \in 1..Len(InputGateways) : ChainResult(order, 1, i) = "pass"}

Called == pc \in {"returned", "threw"}

CrossesMidnight(i) ==
  /\ IsTime(GateOpening(i))
  /\ IsTime(GateClosing(i))
  /\ MinuteOfDay(GateOpening(i)) > MinuteOfDay(GateClosing(i))

\* C28: a gateway whose resolved deposit window has its opening time after its closing
\* time has no record in the output, at any time of the day.
C28_MidnightWindowNeverMatches ==
  Returned =>
    \A i \in 1..Len(InputGateways) : CrossesMidnight(i) => ~Appears(i)

\* 17:00-09:00 at 17:01 and at 08:00, with the other gates passing
C28_Witness ==
  /\ Returned
  /\ Len(InputGateways) = 1
  /\ CrossesMidnight(1)
  /\ OtherGatesPass(1)
  /\ \/ now > MinuteOfDay(GateOpening(1))
     \/ now < MinuteOfDay(GateClosing(1))
  /\ Output = <<>>

\* the fee the engine normalizes for input gateway i: the fee of the option it chooses
InputFee(i) ==
  Get(chosenOption(Get(EntryOf(i), "option"), Get(InputGateways[i], "option")), "fee")

OrDefault(x, default) == IF Truthy(x) THEN x ELSE default

\* the triple the claim gives for a configuration that is present
StatedTriple(c) ==
  Obj([type |-> OrDefault(Get(c, "type"), Str(<<"f", "i", "x", "e", "d">>)),
       value |-> OrDefault(Get(c, "value"), Num(0)),
       min |-> OrDefault(Get(c, "min"), Num(0))])

\* what the claim gives for deposit and withdraw: the triple of the nested object, else
\* the triple of the number under fee.value, else nothing (the minimum of the legacy
\* layout is the min under fee.value)
StatedDirection(fee, dir) ==
  IF Get(fee, dir).t = "object" THEN StatedTriple(Get(fee, dir))
  ELSE IF Get(fee, "value").t = "object" /\ Get(Get(fee, "value"), dir).t = "number"
  THEN Obj([type |-> OrDefault(Get(fee, "type"), Str(<<"f", "i", "x", "e", "d">>)),
            value |-> Get(Get(fee, "value"), dir),
            min |-> OrDefault(Get(Get(fee, "value"), "min"), Num(0))])
  ELSE Undef

StatedSettlement(fee, kind) ==
  IF Get(Get(fee, "settlement"), kind).t = "object"
  THEN StatedTriple(Get(Get(fee, "settlement"), kind)) ELSE Undef

\* C29: the fee on a record is the normalization of the input fee: every direction that
\* is present (deposit, withdraw, settlement.normal, settlement.usdt) is a {type, value,
\* min} triple with type 'fixed' and value and min 0 where the input gives none; deposit
\* and withdraw without a nested object take the number under fee.value and fee.type; a
\* direction given in neither shape is not on the normalized fee and its table entries
\* are 0.
C29_FeeNormalized ==
  Returned =>
    \A j \in 1..Len(Output) : \A i \in 1..Len(InputGateways) :
      (MadeFrom(Output[j], InputGateways[i]) /\ Truthy(InputFee(i))) =>
        LET fee == Get(Get(Output[j], "option"), "fee")
            table == Get(Get(Output[j], "option"), "feeEstimationTable")
        IN /\ \A dir \in {"deposit", "withdraw"} :
                /\ Get(fee, dir) = StatedDirection(InputFee(i), dir)
                /\ StatedDirection(InputFee(i), dir) = Undef =>
                     /\ dir \notin DOMAIN fee.v
                     /\ \A amount \in DOMAIN table.v : Get(table.v[amount], dir) = Num(0)
           /\ \A kind \in {"normal", "usdt"} :
                Get(Get(fee, "settlement"), kind) = StatedSettlement(InputFee(i), kind)

\* the legacy layout for deposit alone, without a type, with a settlement.usdt that has a
\* value only
C29_Witness ==
  /\ Returned
  /\ Len(Output) = 1
  /\ InputFee(1) = LegacyDepositFee
  /\ LET fee == Get(Get(Output[1], "option"), "fee")
         table == Get(Get(Output[1], "option"), "feeEstimationTable")
     IN /\ Get(fee, "deposit") =
             Obj([type |-> Str(<<"f", "i", "x", "e", "d">>), value |-> Num(200), min |-> Num(0)])
        /\ DOMAIN fee.v = {"deposit", "settlement"}
        /\ Get(Get(fee, "settlement"), "usdt") =
             Obj([type |-> Str(<<"f", "i", "x", "e", "d">>), value |-> Num(100), min |-> Num(0)])
        /\ Get(table.v[50], "withdraw") = Num(0)
        /\ Get(table.v[50], "deposit") = Num(200)

AllWritten == {"primary", "stale", "last-update"}

\* C21: a processSite whose fetch failed has not invoked the filter engine and has written
\* none of the site's keys in that cycle, and it has returned; the processSite of every
\* other site of the cycle is not held up by it: it can still fetch, and what it fetched
\* it can still write.
C21_FetchFailureSkipsSite ==
  \A w \in Workers : \A site \in Sites :
    runs[w].process[site].fetchFailed =>
      /\ ~runs[w].process[site].invoked
      /\ runs[w].process[site].wrote = {}
      /\ runs[w].process[site].pc = "done"
      /\ \A other \in runs[w].sites \ {site} :
           /\ runs[w].process[other].pc = "fetch" => ENABLED Fetch(w, other)
           /\ runs[w].process[other].pc = "primary" => ENABLED SetPrimary(w, other)
           /\ runs[w].process[other].pc = "stale" => ENABLED SetStale(w, other)
           /\ runs[w].process[other].pc = "stamp" => ENABLED SetLastUpdate(w, other)

\* one site's fetch failed, and the other site of the same cycle was fetched, filtered
\* and written to both tiers and the stamp, while the failed site's keys are still empty
C21_Witness ==
  \E w \in Workers : \E site \in Sites : \E other \in Sites \ {site} :
    /\ runs[w].process[site].fetchFailed
    /\ runs[w].process[other].invoked
    /\ runs[w].process[other].wrote = AllWritten
    /\ redis[getPrimaryKey(other)] # Null
    /\ redis[getPrimaryKey(site)] = Null
    /\ redis[getStaleKey(site)] = Null
    /\ redis[getLastUpdateKey(site)] = Null

\* a call of CacheService.set for the site has started and not yet returned
writeInProgress(site) == \E w \in Workers : runs[w].process[site].pc \in {"primary", "stale"}

\* C26: whenever no cache write for a site is in progress and both tiers hold data for
\* it, the primary and the stale key hold the same payload, and the stale key holds no
\* payload older than one the primary key has held.
C26_TiersHoldSamePayload ==
  \A site \in Sites :
    (/\ ~writeInProgress(site)
     /\ redis[getPrimaryKey(site)] # Null
     /\ redis[getStaleKey(site)] # Null)
    => /\ redis[getPrimaryKey(site)] = redis[getStaleKey(site)]
       /\ payloadOf(Parsed(redis[getStaleKey(site)])) >= ledger.served[site]

\* a step that starts a fetch cycle of the worker
startsCycle(w) == runs'[w].iterations # runs[w].iterations

\* no cycle starts once stop() has set shouldStop, and none in the CronJob worker once
\* 60 seconds have elapsed
NoCycleAfterStop ==
  [][\A w \in Workers :
       (runs[w].shouldStop \/ (w = "cron" /\ runs[w].elapsed >= MaxDurationMs))
         => ~startsCycle(w)]_vars

\* the process has ended without a call of cache.close()
exitedUnclosed(w) == runs[w].pc = "exited" /\ ~runs[w].closeCalled

\* C30 (as amended): after stop() the worker starts no new fetch cycle, and the CronJob
\* worker starts none once 60 seconds have elapsed; after stop() the process eventually
\* ends, and it has called cache.close() before, except when the Deployment worker's
\* first fetch of the site list failed: then the process ends with exit code 1, no cycle
\* run and cache.close() never called.
C30_StopsAndCloses ==
  /\ NoCycleAfterStop
  /\ \A w \in Workers : runs[w].shouldStop ~> (runs[w].pc = "exited")
  /\ [](\A w \in Workers :
          exitedUnclosed(w) =>
            w = "loop" /\ runs[w].exitCode = 1 /\ runs[w].iterations = 0 /\ runs[w].sites = {})

\* stop() came while the worker was in its loop, and the process has called
\* cache.close() and ended with exit code 0 after at least one cycle
C30_Witness ==
  \E w \in Workers :
    /\ runs[w].shouldStop
    /\ runs[w].iterations >= 1
    /\ runs[w].pc = "exited"
    /\ runs[w].closeCalled
    /\ runs[w].exitCode = 0

\* C30 (as stated): after stop() the worker starts no new fetch cycle, the CronJob worker
\* starts none once 60 seconds have elapsed, and after stop() the worker eventually closes
\* the cache connection and finishes.
C30_StopsClosesAndFinishes ==
  /\ NoCycleAfterStop
  /\ \A w \in Workers : runs[w].shouldStop ~> (runs[w].pc = "exited" /\ runs[w].closeCalled)

====
